---------------------------- MODULE Spec2Model ----------------------------
(***************************************************************************)
(* Model of the lnwtao browser widgets.                                    *)
(*                                                                         *)
(*   lnwremove/script.js : WatermarkRemover.removeWatermark, the fill loop *)
(*                         over the bottom-right rectangle  (SpecFill)     *)
(*   airemove/script.js  : the interactive inpainting tool: image load,    *)
(*                         mask painting, the remove click handler and     *)
(*                         inpaintToCanvas  (Spec)                         *)
(*                                                                         *)
(* JavaScript numbers are doubles.  Where the code computes with           *)
(* fractions (0.15 * height, 0.25 * width) the model keeps the exact       *)
(* rational value as a scaled integer: a name ending in 20 is the value    *)
(* times 20, a name ending in 4 is the value times 4, a name ending in 5   *)
(* is the value times 5.                                                   *)
(***************************************************************************)
EXTENDS Integers, Sequences, FiniteSets, TLC

VARIABLES
    \* ---- lnwremove: one run of removeWatermark --------------------------
    wmImg,      \* the decoded image: [width, height, seed]
    data,       \* imageData.data, the working buffer (0-based index i is data[i+1])
    y20,        \* loop variable y of the outer loop, times 20
    x4,         \* loop variable x of the inner loop, times 4
    wmPc,       \* "idle" | "loop" | "done"
    \* ---- airemove: the interactive tool --------------------------------
    cv,                \* window.cv: "absent" | "noMat" | "ready"
    waiter,            \* the promise of waitForCvReady: "polling" | "resolved" | "rejected"
    now,               \* Date.now() - start: ms since waitForCvReady was called
    timer,             \* when the pending setTimeout(tick, 50) is due, or -1: none pending
    timeoutMs,         \* the argument of waitForCvReady
    stateImg,          \* state.img: "null" or the file it was decoded from
    imgCanvas,         \* #imgCanvas: [w, h, px]
    maskCanvas,        \* #maskCanvas: [w, h, px]
    outCanvas,         \* the off-screen output canvas: [w, h, px]
    drawing,           \* state.drawing
    lastPoint,         \* state.lastPoint: "null" or a point
    brushValue,        \* Number(brushSize.value)
    radiusValue,       \* Number(inpaintRadius.value)
    stateBrush,        \* state.brush
    stateRadius,       \* state.radius
    btnRemoveDisabled, \* btnRemove.disabled
    btnClearDisabled,  \* btnClear.disabled
    status,            \* status.textContent
    loading,           \* files whose loadImageFromFile awaits onload / onerror
    inflight,          \* remove click handlers waiting in their 20 ms yield
    liveMats,          \* native buffers (cv.Mat) allocated and not deleted
    cvLog,             \* what the last run of inpaintToCanvas did with the primitive
    strokes,           \* pointer events that have painted so far
    \* ---- the threshold step alone --------------------------------------
    thGray,            \* a one-channel Mat: the grayscale mask
    thBin,             \* <<the Mat cv.threshold made of it>>, or <<>> before
    \* ---- drawLine alone -------------------------------------------------
    lineIn,            \* the arguments a, b (in half pixels) and brush of a call
    lineOut,           \* <<>>, or the call made: the stamp centres in drawing order
    \* ---- the region of removeWatermark alone ----------------------------
    rgImg,             \* the width and height of the image
    region,            \* <<>>, or lines 217-220 done: the rectangle, scaled
    \* ---- lnwremove: the WatermarkRemover page ----------------------------
    images,            \* this.images: the ids of the stored results, in order
    processedCount,    \* this.processedCount
    successCount,      \* this.successCount
    items,             \* the status of every image item made so far, by id
    grid,              \* the ids of the items that are children of imagesGrid
    uploadHidden,      \* uploadArea has the class hidden
    running,           \* the calls of handleFiles that await a load: [files, pos, item]
    \* ---- the carousel ----------------------------------------------------
    slides,            \* el.slides.length
    index,             \* state.index
    isDragging,        \* state.isDragging
    startX,            \* state.startX
    deltaX,            \* state.deltaX
    autoTimer,         \* state.autoTimer: the id setInterval returned, or 0 for null
    liveTimers,        \* the ids of the interval timers set and not cleared
    timerIds,          \* the number of ids setInterval has handed out
    \* ---- renderImage on images of any size ------------------------------
    szNatural,         \* <<img.naturalWidth, img.naturalHeight>>
    szImgCanvas,       \* <<imgCanvas.width, imgCanvas.height>>
    szMaskCanvas       \* <<maskCanvas.width, maskCanvas.height>>

wmVars == <<wmImg, data, y20, x4, wmPc>>

aiVars == <<cv, waiter, now, timer, timeoutMs, stateImg, imgCanvas, maskCanvas, outCanvas, drawing,
            lastPoint, brushValue, radiusValue, stateBrush, stateRadius,
            btnRemoveDisabled, btnClearDisabled, status, loading, inflight,
            liveMats, cvLog>>

thVars == <<thGray, thBin>>
lnVars == <<lineIn, lineOut>>
rgVars == <<rgImg, region>>
bVars == <<images, processedCount, successCount, items, grid, uploadHidden, running>>
slVars == <<slides, index, isDragging, startX, deltaX, autoTimer, liveTimers, timerIds>>
szVars == <<szNatural, szImgCanvas, szMaskCanvas>>

vars == <<wmVars, aiVars, strokes, thVars, lnVars, rgVars, bVars, slVars, szVars>>

Min(a, b) == IF a <= b THEN a ELSE b
Max(a, b) == IF a >= b THEN a ELSE b

(***************************************************************************)
(* Bounds of the fill model.                                               *)
(***************************************************************************)
MaxW == 8
MaxH == 20
MaxSeed == 2

(***************************************************************************)
(* The decoded input image.  seed 0 is uniform opaque white, seed -1 is    *)
(* uniform opaque with the colour UniformColour, seed 1 is a varied opaque *)
(* image, larger seeds are varied images with alpha < 255.                 *)
(***************************************************************************)
UniformColour == <<10, 20, 30>>

InputByte(seed, i) ==
    LET p == i \div 4
        c == i % 4
    IN  IF c = 3
        THEN (IF seed <= 1 THEN 255 ELSE (seed * 64) % 256)
        ELSE (IF seed = 0 THEN 255
              ELSE IF seed = -1 THEN UniformColour[c + 1]
              ELSE (seed * 50 + p * 37 + c * 11) % 256)

InputData(im) == [i \in 1..(im.width * im.height * 4) |-> InputByte(im.seed, i - 1)]

\* 0.15 * height is not a dyadic rational unless 5 divides height; the double
\* arithmetic of the loop then agrees with the exact value on every index it
\* forms unless 5 divides width (only then can an inexact index round to a
\* whole number).  Those sizes are left out of the input set.
FloatExact(W, H) == ~(W % 5 = 0 /\ H % 5 # 0)

InputImages ==
    {im \in [width : 1..MaxW, height : 1..MaxH, seed : -1..MaxSeed] :
        FloatExact(im.width, im.height)}

(***************************************************************************)
(* removeWatermark: the region (script.js 217-220).                        *)
(***************************************************************************)
watermarkHeight20Unbounded(H) == 3 * H
watermarkHeight20(H) == Min(20 * 100, 3 * H)      \* 20 * Math.min(100, H * 0.15)
watermarkWidth4(W) == Min(4 * 150, W)             \* 4 * Math.min(150, W * 0.25)
startX4(W) == 4 * W - watermarkWidth4(W)
startY20(H) == 20 * H - watermarkHeight20(H)

(***************************************************************************)
(* removeWatermark: one iteration of the inner loop (script.js 230-261).   *)
(***************************************************************************)
\* (y * width + x) * 4, times 5
idx5(W, y, x) == y * W + 5 * x

\* Math.max(0, startY - (y - startY) - 1), times 20
sampleY20(H, y) == Max(0, startY20(H) - (y - startY20(H)) - 20)

\* A typed array has an element at key k only when k is a whole number in
\* 0..length-1: a read at any other key is undefined, a write is ignored.
IsIndex(k5, n) == k5 % 5 = 0 /\ (k5 \div 5) >= 0 /\ (k5 \div 5) < n

\* <<dy, dx>> in the order the two inner loops visit them
Offsets ==
    << <<-1, -1>>, <<-1, 0>>, <<-1, 1>>,
       <<0, -1>>,  <<0, 0>>,  <<0, 1>>,
       <<1, -1>>,  <<1, 0>>,  <<1, 1>> >>

\* the neighbour test of line 245
QualifiesAnyRow(W, H, sy, x, o) ==
    LET ny == sy + 20 * o[1]
        nx == x + 4 * o[2]
    IN  ny >= 0 /\ ny < 20 * H /\ nx >= 0 /\ nx < 4 * W
QualifiesBelow(W, H, sy, x, o) ==
    LET ny == sy + 20 * o[1]
        nx == x + 4 * o[2]
    IN  ny >= startY20(H) /\ ny < 20 * H /\ nx >= 0 /\ nx < 4 * W
Qualifies(W, H, sy, x, o) ==
    LET ny == sy + 20 * o[1]
        nx == x + 4 * o[2]
    IN  ny >= 0 /\ ny < startY20(H) /\ nx >= 0 /\ nx < 4 * W

nIdx5(W, sy, x, o) == idx5(W, sy + 20 * o[1], x + 4 * o[2])

count(W, H, sy, x) == Cardinality({k \in 1..9 : Qualifies(W, H, sy, x, Offsets[k])})

\* r, g or b (channel c) after the loops; an undefined read makes the sum NaN
IsNaN(d, W, H, sy, x, c) ==
    \E k \in 1..9 :
        /\ Qualifies(W, H, sy, x, Offsets[k])
        /\ ~IsIndex(nIdx5(W, sy, x, Offsets[k]) + 5 * c, Len(d))

RECURSIVE ChannelSum(_, _, _, _, _, _, _)
ChannelSum(d, W, H, sy, x, c, k) ==
    IF k = 0 THEN 0
    ELSE ChannelSum(d, W, H, sy, x, c, k - 1)
         + (IF Qualifies(W, H, sy, x, Offsets[k])
               /\ IsIndex(nIdx5(W, sy, x, Offsets[k]) + 5 * c, Len(d))
            THEN d[(nIdx5(W, sy, x, Offsets[k]) \div 5) + c + 1]
            ELSE 0)

\* storing the number s / n into a Uint8ClampedArray: round to nearest, ties
\* to even, clamp to 0..255
ToUint8Clamp(s, n) ==
    LET f == s \div n
        r == s % n
        q == IF 2 * r < n THEN f
             ELSE IF 2 * r > n THEN f + 1
             ELSE IF f % 2 = 0 THEN f ELSE f + 1
    IN  Max(0, Min(255, q))

Average(d, W, H, sy, x, c) ==
    IF IsNaN(d, W, H, sy, x, c) THEN 0
    ELSE ToUint8Clamp(ChannelSum(d, W, H, sy, x, c, 9), count(W, H, sy, x))

\* data[k] = v
Store(d, k5, v) == IF IsIndex(k5, Len(d)) THEN [d EXCEPT ![(k5 \div 5) + 1] = v] ELSE d

FillAt(d, W, H, y, x) ==
    LET sy == sampleY20(H, y)
        k  == idx5(W, y, x)
    IN  IF sy >= 0 /\ count(W, H, sy, x) > 0
        THEN Store(Store(Store(Store(d,
                 k,      Average(d, W, H, sy, x, 0)),
                 k + 5,  Average(d, W, H, sy, x, 1)),
                 k + 10, Average(d, W, H, sy, x, 2)),
                 k + 15, 255)
        ELSE d

(***************************************************************************)
(* airemove: canvases.  A canvas is [w, h, px]: px maps the 0-based index  *)
(* y * w + x of every pixel that is not transparent black to its           *)
(* <<r, g, b, a>> as getImageData reports it.                              *)
(***************************************************************************)
Transparent == <<0, 0, 0, 0>>

Sparse(f) == [i \in {j \in DOMAIN f : f[j] # Transparent} |-> f[i]]

\* a canvas whose width or height was just set, or that was cleared whole
Blank(w, h) == [w |-> w, h |-> h, px |-> [i \in {} |-> Transparent]]

PixelAt(c, i) == IF i \in DOMAIN c.px THEN c.px[i] ELSE Transparent

\* ctx.getImageData(0, 0, c.width, c.height): every pixel, row-major
getImageData(c) == [w |-> c.w, h |-> c.h, px |-> [i \in 0..(c.w * c.h - 1) |-> PixelAt(c, i)]]

\* nearest whole number of n / d (n >= 0, d > 0)
RoundDiv(n, d) == (2 * n + d) \div (2 * d)

\* The bitmap stores premultiplied colour: what is read back from a pixel
\* written as q is q for alpha 255, transparent black for alpha 0, and the
\* un-premultiplied premultiplied value in between.
Stored(q) ==
    IF q[4] = 0 THEN Transparent
    ELSE IF q[4] = 255 THEN q
    ELSE [k \in 1..4 |->
            IF k = 4 THEN q[4]
            ELSE Min(255, RoundDiv(RoundDiv(q[k] * q[4], 255) * 255, q[4]))]

\* source-over compositing of pixel s on pixel d
Over(s, d) ==
    LET a == s[4] + RoundDiv(d[4] * (255 - s[4]), 255)
    IN  IF a = 0 THEN Transparent
        ELSE [k \in 1..4 |->
                IF k = 4 THEN a
                ELSE Min(255, RoundDiv(s[k] * s[4] * 255 + d[k] * d[4] * (255 - s[4]), a * 255))]

(***************************************************************************)
(* The files the user can pick.  "bad" does not decode.                    *)
(***************************************************************************)
Files == {"a", "b", "bad"}

Decodable(f) == f # "bad"

\* the decoded image: naturalWidth, naturalHeight and its pixels
FileImage(f) ==
    IF f = "a"
    THEN [w |-> 3, h |-> 1,
          px |-> [i \in 0..2 |->
                    IF i = 1 THEN <<200, 100, 50, 128>>
                    ELSE <<10 + 60 * i, 200 - 30 * i, 7 * i + 1, 255>>]]
    ELSE [w |-> 2, h |-> 2,
          px |-> [i \in 0..3 |->
                    IF i = 3 THEN <<90, 80, 70, 0>>
                    ELSE <<40 * i, 255 - 40 * i, 5 + i, 255>>]]

\* renderImage, lines 59-63: Math.min(maxW / nw, maxH / nh, 1) and
\* Math.max(1, Math.round(n * scale)), on exact rationals.  The scale is
\* 1 when the image fits, else the smaller of the two ratios.
renderWUnfloored(nw, nh) ==
    IF nw <= 960 /\ nh <= 640 THEN nw
    ELSE IF 960 * nh <= 640 * nw THEN RoundDiv(nw * 960, nw)
    ELSE RoundDiv(nw * 640, nh)
renderW(nw, nh) ==
    IF nw <= 960 /\ nh <= 640 THEN nw
    ELSE IF 960 * nh <= 640 * nw THEN Max(1, RoundDiv(nw * 960, nw))
    ELSE Max(1, RoundDiv(nw * 640, nh))

renderH(nw, nh) ==
    IF nw <= 960 /\ nh <= 640 THEN nh
    ELSE IF 960 * nh <= 640 * nw THEN Max(1, RoundDiv(nh * 960, nw))
    ELSE Max(1, RoundDiv(nh * 640, nh))

\* imgCtx.drawImage(img, 0, 0, w, h) on the cleared canvas; a scaled image is
\* sampled at the nearest source pixel
drawImageScaled(im, w, h) ==
    [w |-> w, h |-> h,
     px |-> Sparse([i \in 0..(w * h - 1) |->
                Stored(Over(im.px[(((i \div w) * im.h) \div h) * im.w + (((i % w) * im.w) \div w)],
                            Transparent))])]

\* renderImage, lines 58-72: the image canvas and the mask canvas it leaves
\* n / d lies midway between two whole numbers
IsTie(n, d) == (2 * n) % d = 0 /\ ((2 * n) \div d) % 2 = 1

\* The canvas sizes alone, for an image of any natural size.  scale is a
\* double, so where the exact product natural * scale is a tie the double
\* handed to Math.round may lie at or just below it: both roundings are
\* outcomes.  One w and one h size both canvases.
renderSize(nw, nh) ==
    LET fits == nw <= 960 /\ nh <= 640
        num == IF 960 * nh <= 640 * nw THEN 960 ELSE 640
        den == IF 960 * nh <= 640 * nw THEN nw ELSE nh
        ws == {renderW(nw, nh)} \cup
              (IF ~fits /\ IsTie(nw * num, den) THEN {Max(1, renderW(nw, nh) - 1)} ELSE {})
        hs == {renderH(nw, nh)} \cup
              (IF ~fits /\ IsTie(nh * num, den) THEN {Max(1, renderH(nw, nh) - 1)} ELSE {})
    IN  ws \X hs

renderImageMaskSwapped(im) ==
    LET w == renderW(im.w, im.h)
        h == renderH(im.w, im.h)
    IN  [img |-> drawImageScaled(im, w, h), mask |-> Blank(h, w)]
renderImage(im) ==
    LET w == renderW(im.w, im.h)
        h == renderH(im.w, im.h)
    IN  [img |-> drawImageScaled(im, w, h), mask |-> Blank(w, h)]

(***************************************************************************)
(* Brush.  Points are in canvas units times 2, so that pixel centres and   *)
(* pixel corners are whole.  A stamp centre on a stroke is the fraction    *)
(* <<cx / den, cy / den>>.                                                 *)
(***************************************************************************)
\* pointer positions and slider values the tool is driven with: few in the
\* specification of the whole page, more where only painting is explored
Points == {<<1, 1>>}
BrushInputs == {9}
PaintPoints == {<<1, 1>>, <<5, 1>>}
PaintBrushes == {1, 3}

\* the five sample positions of pixel i: its corners and its centre
Samples(w, i) ==
    LET x == 2 * (i % w)
        y == 2 * (i \div w)
    IN  {<<x, y>>, <<x + 2, y>>, <<x, y + 2>>, <<x + 2, y + 2>>, <<x + 1, y + 1>>}

\* lines 40-41: the disc of radius brush / 2 around the centre
InDisc(s, cx, cy, den, brush) ==
    (den * s[1] - cx) * (den * s[1] - cx) + (den * s[2] - cy) * (den * s[2] - cy)
        < den * den * brush * brush

\* anti-aliased coverage of pixel i by the disc, as an alpha
Coverage(w, i, cx, cy, den, brush) ==
    (255 * Cardinality({s \in Samples(w, i) : InDisc(s, cx, cy, den, brush)})) \div 5

\* drawBrush, lines 39-43: fill the disc with the context's fill style
drawBrush(c, fill, cx, cy, den, brush) ==
    [c EXCEPT !.px =
        Sparse([i \in 0..(c.w * c.h - 1) |->
            LET a == Coverage(c.w, i, cx, cy, den, brush)
            IN  IF a = 0 THEN PixelAt(c, i)
                ELSE Stored(Over(<<fill[1], fill[2], fill[3], RoundDiv(fill[4] * a, 255)>>,
                                 PixelAt(c, i)))])]

\* line 125: maskCtx.fillStyle = 'rgba(0,0,0,1)'
maskFillStyle == <<0, 0, 0, 255>>

\* lines 45-49: Math.ceil(dist / Math.max(1, brush / 3)): the least n with
\* n * max(3, brush) / 3 >= dist, where dist is sqrt(d2) / 2
lineStepsNone(a, b, brush) == 0
lineSteps(a, b, brush) ==
    LET d2 == (b[1] - a[1]) * (b[1] - a[1]) + (b[2] - a[2]) * (b[2] - a[2])
        m  == Max(3, brush)
    IN  CHOOSE n \in 0..(3 * d2 + 1) :
            /\ 4 * m * m * n * n >= 9 * d2
            /\ \A k \in 0..(n - 1) : 4 * m * m * k * k < 9 * d2

\* lines 51-52: the centre of stamp i of the loop, as the fraction
\* <<cx / den, cy / den>>; t is 0 when steps is 0, else i / steps
stampCentreShort(a, b, steps, i) ==
    <<a[1] * (steps + 1) + (b[1] - a[1]) * i, a[2] * (steps + 1) + (b[2] - a[2]) * i, steps + 1>>
stampCentre(a, b, steps, i) ==
    IF steps = 0
    THEN <<a[1], a[2], 1>>
    ELSE <<a[1] * steps + (b[1] - a[1]) * i, a[2] * steps + (b[2] - a[2]) * i, steps>>

\* lines 50-53: the centres of the stamps i = 0..steps, in the order drawn
lineCentres(a, b, brush) ==
    [k \in 1..(lineSteps(a, b, brush) + 1) |->
        stampCentre(a, b, lineSteps(a, b, brush), k - 1)]

\* lines 50-53: the stamps i = 0..steps, drawn in order
RECURSIVE lineStamps(_, _, _, _, _, _, _)
lineStamps(c, fill, a, b, brush, steps, i) ==
    IF i < 0 THEN c
    ELSE LET before == lineStamps(c, fill, a, b, brush, steps, i - 1)
             centre == stampCentre(a, b, steps, i)
         IN  drawBrush(before, fill, centre[1], centre[2], centre[3], brush)

drawLineEndOnly(c, fill, a, b, brush) == drawBrush(c, fill, b[1], b[2], 1, brush)
drawLine(c, fill, a, b, brush) == lineStamps(c, fill, a, b, brush, lineSteps(a, b, brush), lineSteps(a, b, brush))

(***************************************************************************)
(* The inpainting primitive (OpenCV.js), as inpaintToCanvas uses it.       *)
(***************************************************************************)
\* cv.matFromImageData: the pixels of the image data, four channels
matFromImageData(d) == d

\* cv.cvtColor(src, dst, cv.COLOR_RGBA2RGB): the alpha channel is dropped
RGBA2RGBSwapped(m) == [m EXCEPT !.px = [i \in DOMAIN m.px |-> <<m.px[i][3], m.px[i][2], m.px[i][1]>>]]
RGBA2RGB(m) == [m EXCEPT !.px = [i \in DOMAIN m.px |-> <<m.px[i][1], m.px[i][2], m.px[i][3]>>]]

\* cv.cvtColor(src, dst, cv.COLOR_RGBA2GRAY): the luma of red, green and
\* blue in 14-bit fixed point; the alpha channel is not read
RGBA2GRAY(m) ==
    [m EXCEPT !.px = [i \in DOMAIN m.px |->
        (m.px[i][1] * 4899 + m.px[i][2] * 9617 + m.px[i][3] * 1868 + 8192) \div 16384]]

\* cv.threshold(src, dst, thresh, maxval, cv.THRESH_BINARY):
\* maxval where src > thresh, else 0
THRESH_BINARY(v, thresh, maxval) == IF v > thresh THEN maxval ELSE 0

threshold(m, thresh, maxval) ==
    [m EXCEPT !.px = [i \in DOMAIN m.px |-> THRESH_BINARY(m.px[i], thresh, maxval)]]

\* line 87: cv.threshold(maskGray, maskBin, 1, 255, cv.THRESH_BINARY)
thresholdStep(m) == threshold(m, 1, 255)

\* lines 8-10
clampSwapped(n, min, max) == Min(min, Max(max, n))
clamp(n, min, max) == Max(min, Min(max, n))

\* cv.inpaint(src, mask, dst, radius, cv.INPAINT_TELEA): pixels the mask does
\* not select are copied; a selected pixel is synthesised from the pixels
\* within the radius that are not selected (here: one of them)
inpaint(src, mask, radius) ==
    [src EXCEPT !.px = [i \in DOMAIN src.px |->
        IF mask.px[i] = 0 THEN src.px[i]
        ELSE LET known == {j \in DOMAIN src.px :
                              /\ mask.px[j] = 0
                              /\ (j % src.w) - (i % src.w) \in (0 - radius)..radius
                              /\ (j \div src.w) - (i \div src.w) \in (0 - radius)..radius}
                 any == CHOOSE j \in known : TRUE
             IN  IF known = {} THEN <<0, 0, 0>> ELSE src.px[any]]]

\* cv.imshow(canvas, mat) of a three-channel mat: the canvas takes the mat's
\* size and its pixels, fully opaque
imshow(m) ==
    [w |-> m.w, h |-> m.h,
     px |-> Sparse([i \in DOMAIN m.px |-> <<m.px[i][1], m.px[i][2], m.px[i][3], 255>>])]

\* The statements of inpaintToCanvas that touch the primitive, lines 80-91,
\* in order.  The "new" ones allocate a Mat, and so does matFromImageData.
Statements ==
    << "matFromImageData(img)", "new srcRgb", "cvtColor(RGBA2RGB)",
       "matFromImageData(mask)", "new maskGray", "cvtColor(RGBA2GRAY)",
       "new maskBin", "threshold", "new dst", "inpaint", "imshow" >>

Allocating == {1, 2, 4, 5, 7, 9}

\* the primitive calls, any of which may raise
ThrowPoints == {1, 3, 4, 6, 8, 10, 11}

\* cv.inpaint raises by itself when image and mask differ in size
MustThrow(img, mask) == img.w # mask.w \/ img.h # mask.h

\* One run of inpaintToCanvas (lines 73-98) in which statement t raises
\* (t = 0: none does).  Gives the output canvas it leaves, the Mats it
\* leaves allocated, and what it handed to cv.inpaint.
inpaintToCanvas(img, mask, out, radius, t) ==
    LET imgData    == getImageData(img)
        maskData   == getImageData(mask)
        srcRgb     == RGBA2RGB(matFromImageData(imgData))
        maskGray   == RGBA2GRAY(matFromImageData(maskData))
        maskBin    == thresholdStep(maskGray)
        safeRadius == clamp(radius, 1, 30)
        raised     == IF t # 0 THEN t ELSE IF MustThrow(img, mask) THEN 10 ELSE 0
        allocated  == Cardinality({k \in Allocating : raised = 0 \/ k < raised})
    IN  [thrown   |-> IF raised = 0 THEN "none" ELSE Statements[raised],
         out      |-> IF raised = 0 THEN imshow(inpaint(srcRgb, maskBin, safeRadius)) ELSE out,
         leaked   |-> IF raised = 0 THEN allocated - 6 ELSE allocated,
         inpaintCalled |-> raised = 0 \/ raised >= 10,
         radius   |-> IF raised = 0 \/ raised >= 10 THEN safeRadius ELSE 0,
         maskBin  |-> IF raised = 0 \/ raised >= 10 THEN maskBin.px ELSE [i \in {} |-> 0]]

\* ctx.clearRect(0, 0, c.width, c.height)
clearRect(c) == Blank(c.w, c.h)

\* ctx.drawImage(src, 0, 0) onto canvas c
drawImage(c, src) ==
    [c EXCEPT !.px =
        Sparse([i \in 0..(c.w * c.h - 1) |->
            IF (i % c.w) < src.w /\ (i \div c.w) < src.h
            THEN Stored(Over(PixelAt(src, (i \div c.w) * src.w + (i % c.w)), PixelAt(c, i)))
            ELSE PixelAt(c, i)])]

(***************************************************************************)
(* airemove: the page.                                                     *)
(***************************************************************************)
MaxPending == 2      \* loads awaited at once
MaxInFlight == 1     \* click handlers in their yield at once
MaxLiveMats == 6     \* Mats left allocated before failures stop being explored
MaxStrokes == 2      \* pointer events that paint before painting stops being explored

RadiusInputs == {15}

\* lines 11-13: Boolean(window.cv && window.cv.Mat)
isCvReadyWithoutMat(c) == c # "absent"
isCvReady(c) == c = "ready"

\* line 14: the default of timeoutMs; line 28: the delay of the next check
DefaultTimeoutMs == 20000
TickMs == 50

\* the instants at which the clock is looked at: every 10 ms of the first
\* MaxExtra ms after the call and of the first MaxExtra ms after the
\* default timeout
MaxExtra == 200
Instants ==
    {t \in 0..MaxExtra : t % 10 = 0}
        \cup {DefaultTimeoutMs + t : t \in {u \in 0..MaxExtra : u % 10 = 0}}

\* line 24: Date.now() - start > timeoutMs
timedOutNever(elapsed, timeout) == FALSE
timedOut(elapsed, timeout) == elapsed > timeout

\* tick, lines 19-29, run when elapsed ms have passed since the call: the
\* state of the promise and the due time of the timer it leaves
tick(c, elapsed, timeout) ==
    IF isCvReady(c) THEN [waiter |-> "resolved", timer |-> -1]
    ELSE IF timedOut(elapsed, timeout) THEN [waiter |-> "rejected", timer |-> -1]
    ELSE [waiter |-> "polling", timer |-> elapsed + TickMs]

\* waitForCvReady, lines 14-32, up to its return: resolved at once when the
\* primitive is there, else the first tick runs within the call
waitForCvReady(c, timeout) ==
    IF isCvReady(c) THEN [waiter |-> "resolved", timer |-> -1] ELSE tick(c, 0, timeout)

\* ensureCv, lines 169-177: the status once the awaited promise is as w says
ensureCv(st, w) ==
    IF w = "resolved" THEN "cvReady"
    ELSE IF w = "rejected" THEN "cvLoadFailed"
    ELSE st

\* a canvas element before any size is set: 300 x 150, transparent
DefaultCanvas == Blank(300, 150)

NoLog ==
    [thrown |-> "none", inpaintCalled |-> FALSE, radius |-> 0, maskBin |-> [i \in {} |-> 0]]

\* syncControls, lines 126-134, with the values the handler has just set
syncControls(img, canvas, brush, radius) ==
    LET canWork == img # "null" /\ canvas.w > 0 /\ canvas.h > 0
    IN  /\ stateBrush' = brush
        /\ stateRadius' = radius
        /\ btnRemoveDisabled' = ~canWork
        /\ btnClearDisabled' = ~canWork

\* lines 99-125 and 273-275: the state after the script has run; ensureCv has
\* called waitForCvReady, which resolved at once if the primitive was there
AiInit ==
    /\ cv \in {"absent", "noMat", "ready"}
    /\ timeoutMs = DefaultTimeoutMs
    /\ now = 0
    /\ waiter = waitForCvReady(cv, timeoutMs).waiter
    /\ timer = waitForCvReady(cv, timeoutMs).timer
    /\ stateImg = "null"
    /\ imgCanvas = DefaultCanvas
    /\ maskCanvas = DefaultCanvas
    /\ outCanvas = DefaultCanvas
    /\ drawing = FALSE
    /\ lastPoint = "null"
    /\ brushValue \in BrushInputs
    /\ radiusValue \in RadiusInputs
    /\ stateBrush = brushValue
    /\ stateRadius = radiusValue
    /\ btnRemoveDisabled = TRUE
    /\ btnClearDisabled = TRUE
    /\ status = ensureCv("initial", waitForCvReady(cv, timeoutMs).waiter)
    /\ loading = {}
    /\ inflight = 0
    /\ liveMats = 0
    /\ cvLog = NoLog

\* the OpenCV.js script defines window.cv, and later its runtime defines cv.Mat
CvLoads ==
    /\ cv # "ready"
    /\ cv' \in (IF cv = "absent" THEN {"noMat", "ready"} ELSE {"ready"})
    /\ UNCHANGED <<wmVars, thVars, szVars, slVars, bVars, rgVars, lnVars, strokes>>
    /\ UNCHANGED <<waiter, now, timer, timeoutMs, stateImg, imgCanvas, maskCanvas, outCanvas, drawing,
                   lastPoint, brushValue, radiusValue, stateBrush, stateRadius,
                   btnRemoveDisabled, btnClearDisabled, status, loading, inflight,
                   liveMats, cvLog>>

\* the clock advances to the later instant t
TimePasses(t) ==
    /\ t > now
    /\ now' = t
    /\ UNCHANGED <<wmVars, thVars, szVars, slVars, bVars, rgVars, lnVars, strokes>>
    /\ UNCHANGED <<cv, waiter, timer, timeoutMs, stateImg, imgCanvas, maskCanvas, outCanvas,
                   drawing, lastPoint, brushValue, radiusValue, stateBrush, stateRadius,
                   btnRemoveDisabled, btnClearDisabled, status, loading, inflight,
                   liveMats, cvLog>>

\* the timer of line 28 fires, at its due time or later: tick, lines 19-29,
\* and what ensureCv does when the promise settles, lines 169-177
WaitTick ==
    /\ timer # -1
    /\ now >= timer
    /\ waiter' = tick(cv, now, timeoutMs).waiter
    /\ timer' = tick(cv, now, timeoutMs).timer
    /\ status' = ensureCv(status, tick(cv, now, timeoutMs).waiter)
    /\ UNCHANGED <<wmVars, thVars, szVars, slVars, bVars, rgVars, lnVars, strokes>>
    /\ UNCHANGED <<cv, now, timeoutMs, stateImg, imgCanvas, maskCanvas, outCanvas, drawing,
                   lastPoint, brushValue, radiusValue, stateBrush, stateRadius,
                   btnRemoveDisabled, btnClearDisabled, loading, inflight,
                   liveMats, cvLog>>

\* lines 213-214: an input event of a slider runs syncControls
BrushInput(v) ==
    /\ brushValue' = v
    /\ syncControls(stateImg, imgCanvas, v, radiusValue)
    /\ UNCHANGED <<wmVars, thVars, szVars, slVars, bVars, rgVars, lnVars, strokes>>
    /\ UNCHANGED <<cv, waiter, now, timer, timeoutMs, stateImg, imgCanvas, maskCanvas, outCanvas, drawing,
                   lastPoint, radiusValue, status, loading, inflight, liveMats, cvLog>>

RadiusInput(v) ==
    /\ radiusValue' = v
    /\ syncControls(stateImg, imgCanvas, brushValue, v)
    /\ UNCHANGED <<wmVars, thVars, szVars, slVars, bVars, rgVars, lnVars, strokes>>
    /\ UNCHANGED <<cv, waiter, now, timer, timeoutMs, stateImg, imgCanvas, maskCanvas, outCanvas, drawing,
                   lastPoint, brushValue, status, loading, inflight, liveMats, cvLog>>

\* lines 255-267 and 144-152: a file is chosen or dropped; loadImageFromFile
\* runs up to its await
LoadStart(f) ==
    /\ f \notin loading
    /\ Cardinality(loading) < MaxPending
    /\ loading' = loading \cup {f}
    /\ UNCHANGED <<wmVars, thVars, szVars, slVars, bVars, rgVars, lnVars, strokes>>
    /\ UNCHANGED <<cv, waiter, now, timer, timeoutMs, stateImg, imgCanvas, maskCanvas, outCanvas, drawing,
                   lastPoint, brushValue, radiusValue, stateBrush, stateRadius,
                   btnRemoveDisabled, btnClearDisabled, status, inflight, liveMats, cvLog>>

\* lines 150, 153-167: onload; the rest of loadImageFromFile
LoadDone(f) ==
    /\ f \in loading
    /\ Decodable(f)
    /\ loading' = loading \ {f}
    /\ stateImg' = f
    /\ imgCanvas' = renderImage(FileImage(f)).img
    /\ maskCanvas' = renderImage(FileImage(f)).mask
    /\ outCanvas' = Blank(imgCanvas'.w, imgCanvas'.h)
    /\ status' = "imageReady"
    /\ syncControls(f, imgCanvas', brushValue, radiusValue)
    /\ UNCHANGED <<wmVars, thVars, szVars, slVars, bVars, rgVars, lnVars, strokes>>
    /\ UNCHANGED <<cv, waiter, now, timer, timeoutMs, drawing, lastPoint, brushValue, radiusValue,
                   inflight, liveMats, cvLog>>

\* line 151: onerror; the rejection leaves loadImageFromFile
LoadFail(f) ==
    /\ f \in loading
    /\ ~Decodable(f)
    /\ loading' = loading \ {f}
    /\ UNCHANGED <<wmVars, thVars, szVars, slVars, bVars, rgVars, lnVars, strokes>>
    /\ UNCHANGED <<cv, waiter, now, timer, timeoutMs, stateImg, imgCanvas, maskCanvas, outCanvas, drawing,
                   lastPoint, brushValue, radiusValue, stateBrush, stateRadius,
                   btnRemoveDisabled, btnClearDisabled, status, inflight, liveMats, cvLog>>

\* a pointer event that paints: counted, and bounded, where the count starts
\* at 0; below 0 the count is not kept
Stroke ==
    /\ strokes < MaxStrokes
    /\ strokes' = (IF strokes < 0 THEN strokes ELSE strokes + 1)

\* lines 178-185
pointerDown(p) ==
    /\ IF stateImg = "null"
       THEN UNCHANGED <<drawing, lastPoint, maskCanvas, strokes>>
       ELSE /\ Stroke
            /\ drawing' = TRUE
            /\ lastPoint' = p
            /\ maskCanvas' = drawBrush(maskCanvas, maskFillStyle, p[1], p[2], 1, stateBrush)
    /\ UNCHANGED <<wmVars, thVars, szVars, slVars, bVars, rgVars, lnVars>>
    /\ UNCHANGED <<cv, waiter, now, timer, timeoutMs, stateImg, imgCanvas, outCanvas,
                   brushValue, radiusValue, stateBrush, stateRadius,
                   btnRemoveDisabled, btnClearDisabled, status, loading, inflight,
                   liveMats, cvLog>>

\* lines 186-198 without the test of state.drawing
pointerMoveUnguarded(p, shiftKey) ==
    /\ IF stateImg = "null"
       THEN UNCHANGED <<lastPoint, maskCanvas, strokes>>
       ELSE /\ Stroke
            /\ maskCanvas' =
                 IF shiftKey /\ lastPoint # "null"
                 THEN drawLine(maskCanvas, maskFillStyle, lastPoint, p, stateBrush)
                 ELSE drawBrush(maskCanvas, maskFillStyle, p[1], p[2], 1, stateBrush)
            /\ lastPoint' = p
    /\ UNCHANGED <<wmVars, thVars, szVars, slVars, bVars, rgVars, lnVars>>
    /\ UNCHANGED <<cv, waiter, now, timer, timeoutMs, stateImg, imgCanvas, outCanvas, drawing,
                   brushValue, radiusValue, stateBrush, stateRadius,
                   btnRemoveDisabled, btnClearDisabled, status, loading, inflight,
                   liveMats, cvLog>>

\* lines 186-198
pointerMove(p, shiftKey) ==
    /\ IF ~drawing \/ stateImg = "null"
       THEN UNCHANGED <<lastPoint, maskCanvas, strokes>>
       ELSE /\ Stroke
            /\ maskCanvas' =
                 IF shiftKey /\ lastPoint # "null"
                 THEN drawLine(maskCanvas, maskFillStyle, lastPoint, p, stateBrush)
                 ELSE drawBrush(maskCanvas, maskFillStyle, p[1], p[2], 1, stateBrush)
            /\ lastPoint' = p
    /\ UNCHANGED <<wmVars, thVars, szVars, slVars, bVars, rgVars, lnVars>>
    /\ UNCHANGED <<cv, waiter, now, timer, timeoutMs, stateImg, imgCanvas, outCanvas, drawing,
                   brushValue, radiusValue, stateBrush, stateRadius,
                   btnRemoveDisabled, btnClearDisabled, status, loading, inflight,
                   liveMats, cvLog>>

\* lines 199-202, for pointerup and pointercancel
pointerUp ==
    /\ drawing' = FALSE
    /\ lastPoint' = "null"
    /\ UNCHANGED <<wmVars, thVars, szVars, slVars, bVars, rgVars, lnVars, strokes>>
    /\ UNCHANGED <<cv, waiter, now, timer, timeoutMs, stateImg, imgCanvas, maskCanvas, outCanvas,
                   brushValue, radiusValue, stateBrush, stateRadius,
                   btnRemoveDisabled, btnClearDisabled, status, loading, inflight,
                   liveMats, cvLog>>

\* lines 207-212: keydown of Escape
Escape ==
    /\ drawing' = FALSE
    /\ lastPoint' = "null"
    /\ UNCHANGED <<wmVars, thVars, szVars, slVars, bVars, rgVars, lnVars, strokes>>
    /\ UNCHANGED <<cv, waiter, now, timer, timeoutMs, stateImg, imgCanvas, maskCanvas, outCanvas,
                   brushValue, radiusValue, stateBrush, stateRadius,
                   btnRemoveDisabled, btnClearDisabled, status, loading, inflight,
                   liveMats, cvLog>>

\* lines 215-220; a disabled button dispatches no click
ClearClick ==
    /\ ~btnClearDisabled
    /\ IF stateImg = "null"
       THEN UNCHANGED <<maskCanvas, status>>
       ELSE maskCanvas' = clearRect(maskCanvas) /\ status' = "maskCleared"
    /\ UNCHANGED <<wmVars, thVars, szVars, slVars, bVars, rgVars, lnVars, strokes>>
    /\ UNCHANGED <<cv, waiter, now, timer, timeoutMs, stateImg, imgCanvas, outCanvas, drawing,
                   lastPoint, brushValue, radiusValue, stateBrush, stateRadius,
                   btnRemoveDisabled, btnClearDisabled, loading, inflight,
                   liveMats, cvLog>>

\* lines 221-231: the remove click handler up to its await
RemoveClick ==
    /\ ~btnRemoveDisabled
    /\ inflight < MaxInFlight
    /\ IF stateImg = "null"
       THEN UNCHANGED <<status, btnRemoveDisabled, inflight>>
       ELSE IF cv = "absent" \/ ~isCvReady(cv)
            THEN /\ status' = "notReady"
                 /\ UNCHANGED <<btnRemoveDisabled, inflight>>
            ELSE /\ btnRemoveDisabled' = TRUE
                 /\ status' = "working"
                 /\ inflight' = inflight + 1
    /\ UNCHANGED <<wmVars, thVars, szVars, slVars, bVars, rgVars, lnVars, strokes>>
    /\ UNCHANGED <<cv, waiter, now, timer, timeoutMs, stateImg, imgCanvas, maskCanvas, outCanvas, drawing,
                   lastPoint, brushValue, radiusValue, stateBrush, stateRadius,
                   btnClearDisabled, loading, liveMats, cvLog>>

\* lines 232-240: the image canvas after the try block, whose call of
\* inpaintToCanvas ended as run says
afterTryCleared(img, run) ==
    IF run.thrown = "none" THEN drawImage(clearRect(img), run.out) ELSE clearRect(img)
afterTry(img, run) ==
    IF run.thrown = "none" THEN drawImage(clearRect(img), run.out) ELSE img

\* lines 79-90, 232-240: the mask canvas after the try block: getImageData
\* hands inpaintToCanvas a copy, and no statement draws on maskCtx
maskAfterTryCleared(mask, run) ==
    IF run.thrown = "none" THEN clearRect(mask) ELSE mask
maskAfterTry(mask, run) == mask

\* lines 232-242 with the enabling of line 241 moved into the try block
RemoveResumeFailsDisabled(t) ==
    /\ inflight > 0
    /\ LET run == inpaintToCanvas(imgCanvas, maskCanvas, outCanvas, stateRadius, t)
       IN  /\ liveMats + run.leaked <= MaxLiveMats
           /\ inflight' = inflight - 1
           /\ liveMats' = liveMats + run.leaked
           /\ outCanvas' = run.out
           /\ cvLog' = [thrown |-> run.thrown, inpaintCalled |-> run.inpaintCalled,
                        radius |-> run.radius, maskBin |-> run.maskBin]
           /\ imgCanvas' = afterTry(imgCanvas, run)
           /\ maskCanvas' = maskAfterTry(maskCanvas, run)
           /\ status' = (IF run.thrown = "none" THEN "done" ELSE "failed")
           /\ btnRemoveDisabled' = (run.thrown # "none")
    /\ stateBrush' = brushValue
    /\ stateRadius' = radiusValue
    /\ btnClearDisabled' = FALSE
    /\ UNCHANGED <<wmVars, thVars, szVars, slVars, bVars, rgVars, lnVars, strokes>>
    /\ UNCHANGED <<cv, waiter, now, timer, timeoutMs, stateImg, drawing, lastPoint,
                   brushValue, radiusValue, loading>>

\* lines 232-242: the handler after the 20 ms timer; statement t of
\* inpaintToCanvas raises (t = 0: none)
RemoveResume(t) ==
    /\ inflight > 0
    /\ LET run == inpaintToCanvas(imgCanvas, maskCanvas, outCanvas, stateRadius, t)
       IN  /\ liveMats + run.leaked <= MaxLiveMats
           /\ inflight' = inflight - 1
           /\ liveMats' = liveMats + run.leaked
           /\ outCanvas' = run.out
           /\ cvLog' = [thrown |-> run.thrown, inpaintCalled |-> run.inpaintCalled,
                        radius |-> run.radius, maskBin |-> run.maskBin]
           /\ imgCanvas' = afterTry(imgCanvas, run)
           /\ maskCanvas' = maskAfterTry(maskCanvas, run)
           /\ status' = (IF run.thrown = "none" THEN "done" ELSE "failed")
    /\ syncControls(stateImg, imgCanvas', brushValue, radiusValue)
    /\ UNCHANGED <<wmVars, thVars, szVars, slVars, bVars, rgVars, lnVars, strokes>>
    /\ UNCHANGED <<cv, waiter, now, timer, timeoutMs, stateImg, drawing, lastPoint,
                   brushValue, radiusValue, loading>>

\* the page: every handler but the poll of waitForCvReady
PageNext ==
    \/ CvLoads
    \/ \E v \in BrushInputs : BrushInput(v)
    \/ \E v \in RadiusInputs : RadiusInput(v)
    \/ \E f \in Files : LoadStart(f)
    \/ \E f \in Files : LoadDone(f)
    \/ \E f \in Files : LoadFail(f)
    \/ \E p \in Points : pointerDown(p)
    \/ \E p \in Points, k \in BOOLEAN : pointerMove(p, k)
    \/ pointerUp
    \/ Escape
    \/ ClearClick
    \/ RemoveClick
    \/ \E t \in ThrowPoints \cup {0} : RemoveResume(t)

\* the fill model at rest
WmParked ==
    /\ wmImg = [width |-> 1, height |-> 1, seed |-> 0]
    /\ data = <<>>
    /\ y20 = 0
    /\ x4 = 0
    /\ wmPc = "idle"

\* the threshold model at rest
ThParked ==
    /\ thGray = [w |-> 1, h |-> 1, px |-> [i \in {0} |-> 0]]
    /\ thBin = <<>>

\* the tool with the primitive ready and file f loaded, as LoadDone leaves
\* it, the sliders at brush and radius
Loaded(f, brush, radius) ==
    /\ cv = "ready"
    /\ waiter = "resolved"
    /\ now = 0
    /\ timer = -1
    /\ timeoutMs = DefaultTimeoutMs
    /\ stateImg = f
    /\ imgCanvas = renderImage(FileImage(f)).img
    /\ maskCanvas = renderImage(FileImage(f)).mask
    /\ outCanvas = Blank(imgCanvas.w, imgCanvas.h)
    /\ drawing = FALSE
    /\ lastPoint = "null"
    /\ brushValue = brush
    /\ radiusValue = radius
    /\ stateBrush = brush
    /\ stateRadius = radius
    /\ btnRemoveDisabled = FALSE
    /\ btnClearDisabled = FALSE
    /\ status = "imageReady"
    /\ loading = {}
    /\ inflight = 0
    /\ liveMats = 0
    /\ cvLog = NoLog

\* the tool at rest
AiParked ==
    /\ cv = "absent"
    /\ waiter = "polling"
    /\ now = 0
    /\ timer = TickMs
    /\ timeoutMs = DefaultTimeoutMs
    /\ stateImg = "null"
    /\ imgCanvas = DefaultCanvas
    /\ maskCanvas = DefaultCanvas
    /\ outCanvas = DefaultCanvas
    /\ drawing = FALSE
    /\ lastPoint = "null"
    /\ brushValue = 9
    /\ radiusValue = 15
    /\ stateBrush = 9
    /\ stateRadius = 15
    /\ btnRemoveDisabled = TRUE
    /\ btnClearDisabled = TRUE
    /\ status = "initial"
    /\ loading = {}
    /\ inflight = 0
    /\ liveMats = 0
    /\ cvLog = NoLog

\* the WatermarkRemover page at rest: as its constructor leaves it
BParked ==
    /\ images = <<>>
    /\ processedCount = 0
    /\ successCount = 0
    /\ items = <<>>
    /\ grid = {}
    /\ uploadHidden = FALSE
    /\ running = <<>>

\* the region model at rest
RgParked ==
    /\ rgImg = [width |-> 1, height |-> 1]
    /\ region = <<>>

\* no image rendered
SzParked ==
    /\ szNatural = <<0, 0>>
    /\ szImgCanvas = <<0, 0>>
    /\ szMaskCanvas = <<0, 0>>

\* the carousel at rest
SlParked ==
    /\ slides = 0
    /\ index = 0
    /\ isDragging = FALSE
    /\ startX = 0
    /\ deltaX = 0
    /\ autoTimer = 0
    /\ liveTimers = {}
    /\ timerIds = 0

\* the drawLine model at rest
LnParked ==
    /\ lineIn = [a |-> <<0, 0>>, b |-> <<0, 0>>, brush |-> 0]
    /\ lineOut = <<>>

(***************************************************************************)
(* Spec: the whole page from its start.                                    *)
(***************************************************************************)
PageInit == AiInit /\ WmParked /\ ThParked /\ SzParked /\ SlParked /\ BParked /\ RgParked /\ LnParked /\ strokes = -1

Spec == PageInit /\ [][PageNext]_vars

(***************************************************************************)
(* SpecPaint: painting on a loaded image with the primitive ready and not  *)
(* raising; at most MaxStrokes pointer events paint.                       *)
(***************************************************************************)
PaintInit ==
    /\ \E f \in {g \in Files : Decodable(g)}, b \in PaintBrushes : Loaded(f, b, 15)
    /\ WmParked
    /\ ThParked
    /\ SzParked
    /\ SlParked
    /\ BParked
    /\ RgParked
    /\ LnParked
    /\ strokes = 0

PaintNext ==
    \/ \E p \in PaintPoints : pointerDown(p)
    \/ \E p \in PaintPoints, k \in BOOLEAN : pointerMove(p, k)
    \/ pointerUp
    \/ \E v \in PaintBrushes : BrushInput(v)
    \/ ClearClick
    \/ RemoveClick
    \/ RemoveResume(0)

SpecPaint == PaintInit /\ [][PaintNext]_vars

(***************************************************************************)
(* SpecRadius: the radius slider and the remove button on a loaded image.  *)
(***************************************************************************)
RadiusMargin == 3

WideRadii == (0 - RadiusMargin)..(30 + RadiusMargin)

RadiusInit ==
    /\ \E r \in WideRadii : Loaded("a", 9, r)
    /\ WmParked
    /\ ThParked
    /\ SzParked
    /\ SlParked
    /\ BParked
    /\ RgParked
    /\ LnParked
    /\ strokes = 0

RadiusNext ==
    \/ \E v \in WideRadii : RadiusInput(v)
    \/ RemoveClick
    \/ \E t \in {0, 10} : RemoveResume(t)

SpecRadius == RadiusInit /\ [][RadiusNext]_vars

\* line 231: the 20 ms timer a click handler awaits does fire, and the
\* handler then runs to its end (a step of RemoveResume: the only steps that
\* take a handler out of its yield)
TimerFires == inflight > 0 /\ inflight' = inflight - 1

SpecRadiusFair == SpecRadius /\ WF_inflight(TimerFires)

(***************************************************************************)
(* SpecThreshold: the threshold statement of inpaintToCanvas (line 87) on  *)
(* a grayscale mask of one pixel of every intensity.                       *)
(***************************************************************************)
ThInit ==
    /\ \E v \in 0..255 : thGray = [w |-> 1, h |-> 1, px |-> [i \in {0} |-> v]]
    /\ thBin = <<>>
    /\ SzParked
    /\ SlParked
    /\ BParked
    /\ RgParked
    /\ LnParked
    /\ AiParked
    /\ WmParked
    /\ strokes = 0

ThApply ==
    /\ thBin = <<>>
    /\ thBin' = <<thresholdStep(thGray)>>
    /\ UNCHANGED <<thGray, wmVars, aiVars, strokes, szVars, slVars, bVars, rgVars, lnVars>>

SpecThreshold == ThInit /\ [][ThApply]_vars

(***************************************************************************)
(* SpecWait: waitForCvReady(timeoutMs) alone, for several timeouts, the    *)
(* primitive arriving at any time or never.  SpecWaitFair adds that time   *)
(* goes on and that a timer that is due fires.                             *)
(***************************************************************************)
Timeouts == {0, 50, 120, DefaultTimeoutMs}

WaitInit ==
    /\ cv \in {"absent", "noMat", "ready"}
    /\ timeoutMs \in Timeouts
    /\ now = 0
    /\ waiter = waitForCvReady(cv, timeoutMs).waiter
    /\ timer = waitForCvReady(cv, timeoutMs).timer
    /\ status = ensureCv("initial", waitForCvReady(cv, timeoutMs).waiter)
    /\ stateImg = "null"
    /\ imgCanvas = DefaultCanvas
    /\ maskCanvas = DefaultCanvas
    /\ outCanvas = DefaultCanvas
    /\ drawing = FALSE
    /\ lastPoint = "null"
    /\ brushValue = 9
    /\ radiusValue = 15
    /\ stateBrush = 9
    /\ stateRadius = 15
    /\ btnRemoveDisabled = TRUE
    /\ btnClearDisabled = TRUE
    /\ loading = {}
    /\ inflight = 0
    /\ liveMats = 0
    /\ cvLog = NoLog
    /\ WmParked
    /\ ThParked
    /\ SzParked
    /\ SlParked
    /\ LnParked
    /\ RgParked
    /\ BParked
    /\ strokes = 0

WaitNext ==
    \/ CvLoads
    \/ \E t \in Instants : TimePasses(t)
    \/ WaitTick

SpecWait == WaitInit /\ [][WaitNext]_vars

SpecWaitFair ==
    SpecWait /\ WF_vars(\E t \in Instants : TimePasses(t)) /\ WF_vars(WaitTick)

(***************************************************************************)
(* SpecLine: one call of drawLine (lines 44-54) for brush sizes 0..MaxBrush *)
(* and end points that coincide, lie brush * 3 pixels apart, or lie at     *)
(* another distance.                                                       *)
(***************************************************************************)
MaxBrush == 6

LineStarts == {<<1, 1>>, <<40, 70>>}

\* b - a, in half pixels: 6 * brush is brush * 3 pixels
LineOffsets(brush) ==
    {<<0, 0>>, <<6 * brush, 0>>, <<0, 6 * brush>>, <<0 - 6 * brush, 0>>, <<0, 0 - 6 * brush>>,
     <<1, 0>>, <<7, 3>>}
        \cup (IF brush % 5 = 0 THEN {<<18 * (brush \div 5), 24 * (brush \div 5)>>} ELSE {})

LnInit ==
    /\ \E brush \in 0..MaxBrush, a \in LineStarts :
          \E o \in LineOffsets(brush) :
              lineIn = [a |-> a, b |-> <<a[1] + o[1], a[2] + o[2]>>, brush |-> brush]
    /\ lineOut = <<>>
    /\ AiParked
    /\ WmParked
    /\ ThParked
    /\ SzParked
    /\ SlParked
    /\ BParked
    /\ RgParked
    /\ strokes = 0

LnDraw ==
    /\ lineOut = <<>>
    /\ lineOut' = <<lineCentres(lineIn.a, lineIn.b, lineIn.brush)>>
    /\ UNCHANGED <<lineIn, wmVars, aiVars, strokes, thVars, szVars, slVars, bVars, rgVars>>

SpecLine == LnInit /\ [][LnDraw]_vars

(***************************************************************************)
(* SpecRegion: lines 217-220 of removeWatermark for images up to MaxDim    *)
(* pixels wide or high, past the sizes where the 100 and 150 pixel caps    *)
(* take over.                                                              *)
(***************************************************************************)
MaxDim == 700

\* the other dimension of an image whose one dimension runs over 1..MaxDim
SampleDims == {1, 7, 600, 601}

RegionSizes ==
    {im \in [width : 1..MaxDim, height : 1..MaxDim] :
        im.width \in SampleDims \/ im.height \in SampleDims}

RgInit ==
    /\ rgImg \in RegionSizes
    /\ region = <<>>
    /\ AiParked
    /\ WmParked
    /\ ThParked
    /\ SzParked
    /\ SlParked
    /\ BParked
    /\ LnParked
    /\ strokes = 0

\* lines 217-220
RgCompute ==
    /\ region = <<>>
    /\ region' = <<[width4   |-> watermarkWidth4(rgImg.width),
                    height20 |-> watermarkHeight20(rgImg.height),
                    startX4  |-> startX4(rgImg.width),
                    startY20 |-> startY20(rgImg.height)]>>
    /\ UNCHANGED <<rgImg, wmVars, aiVars, strokes, thVars, szVars, slVars, bVars, lnVars>>

SpecRegion == RgInit /\ [][RgCompute]_vars

(***************************************************************************)
(* removeWatermark as a process: draw the image and read it back, run the  *)
(* two loops one iteration at a time, put the buffer back.                 *)
(***************************************************************************)
WmInit ==
    /\ AiParked
    /\ strokes = 0
    /\ ThParked
    /\ SzParked
    /\ SlParked
    /\ BParked
    /\ RgParked
    /\ LnParked
    /\ wmImg \in InputImages
    /\ data = <<>>
    /\ y20 = 0
    /\ x4 = 0
    /\ wmPc = "idle"

\* lines 199-228: canvas, drawImage, region, getImageData, enter the loops
WmBegin ==
    /\ wmPc = "idle"
    /\ data' = InputData(wmImg)
    /\ y20' = startY20(wmImg.height)
    /\ x4' = startX4(wmImg.width)
    /\ wmPc' = "loop"
    /\ UNCHANGED <<wmImg, aiVars, strokes, thVars, szVars, slVars, bVars, rgVars, lnVars>>

\* lines 229-262: one iteration of the inner loop, then x++ (and y++ with x
\* reset when the row is finished)
WmFillPixel ==
    /\ wmPc = "loop"
    /\ y20 < 20 * wmImg.height
    /\ x4 < 4 * wmImg.width
    /\ data' = FillAt(data, wmImg.width, wmImg.height, y20, x4)
    /\ IF x4 + 4 < 4 * wmImg.width
       THEN x4' = x4 + 4 /\ y20' = y20
       ELSE x4' = startX4(wmImg.width) /\ y20' = y20 + 20
    /\ UNCHANGED <<wmImg, wmPc, aiVars, strokes, thVars, szVars, slVars, bVars, rgVars, lnVars>>

\* lines 228, 266-268: the loops are over (or a row is empty): putImageData
WmFinish ==
    /\ wmPc = "loop"
    /\ \/ y20 >= 20 * wmImg.height
       \/ x4 >= 4 * wmImg.width
    /\ wmPc' = "done"
    /\ UNCHANGED <<wmImg, data, y20, x4, aiVars, strokes, thVars, szVars, slVars, bVars, rgVars, lnVars>>

FillNext == WmBegin \/ WmFillPixel \/ WmFinish

SpecFill == WmInit /\ [][FillNext]_vars


(***************************************************************************)
(* Claims about removeWatermark.                                           *)
(***************************************************************************)
Pixels(im) == {p \in [x : 0..(im.width - 1), y : 0..(im.height - 1)] : TRUE}

\* byte c of pixel p in buffer d
ByteAt(d, im, p, c) == d[(p.y * im.width + p.x) * 4 + c + 1]

\* pixel p overlaps the rectangle [startX, W) x [startY, H)
TouchesRect(im, p) ==
    4 * (p.x + 1) > startX4(im.width) /\ 20 * (p.y + 1) > startY20(im.height)

\* pixel p lies in the rectangle: startX <= p.x < W and startY <= p.y < H
InRect(im, p) ==
    4 * p.x >= startX4(im.width) /\ 20 * p.y >= startY20(im.height)

\* 15% of the height and 25% of the width are whole numbers
WholeRect(im) ==
    watermarkHeight20(im.height) % 20 = 0 /\ watermarkWidth4(im.width) % 4 = 0

\* C1: for every image with height >= 2 and width >= 2 the fill changes no
\* byte of a pixel outside the bottom-right rectangle (here: of a pixel that
\* does not even overlap it).
C1_OutsideUnchanged ==
    (wmPc # "idle" /\ wmImg.width >= 2 /\ wmImg.height >= 2) =>
        \A p \in Pixels(wmImg) :
            ~TouchesRect(wmImg, p) =>
                \A c \in 0..3 : ByteAt(data, wmImg, p, c) = ByteAt(InputData(wmImg), wmImg, p, c)

\* C2: when removeWatermark has run, every pixel of the rectangle has alpha 255.
C2_RectOpaque ==
    wmPc = "done" =>
        \A p \in Pixels(wmImg) : InRect(wmImg, p) => ByteAt(data, wmImg, p, 3) = 255


(***************************************************************************)
(* Claims about the interactive tool.                                      *)
(***************************************************************************)
\* a step in which a remove click handler finished its run of inpaintToCanvas
ResumeStep == inflight' < inflight

\* C3: when inpaint runs after the user has painted, the binary mask handed
\* to the primitive is 255 at every pixel the painting made fully opaque
\* and 0 at every pixel it left untouched.
C3_MaskSelectsPainted ==
    [][(ResumeStep /\ cvLog'.inpaintCalled) =>
          \A i \in DOMAIN cvLog'.maskBin :
              /\ PixelAt(maskCanvas, i)[4] = 255 => cvLog'.maskBin[i] = 255
              /\ PixelAt(maskCanvas, i) = Transparent => cvLog'.maskBin[i] = 0]_vars

\* C4: the threshold step maps every non-zero intensity to 255 and zero to 0.
C4_ThresholdNonZero ==
    thBin # <<>> =>
        \A i \in DOMAIN thGray.px :
            thBin[1].px[i] = (IF thGray.px[i] = 0 THEN 0 ELSE 255)

\* C5: between invocations of inpaintToCanvas no native buffer is live.
C5_NoLiveMats == liveMats = 0

\* C6: while a remove click handler is in its yield the trigger is disabled.
C6_DisabledWhileInFlight == inflight > 0 => btnRemoveDisabled

\* C7: when a statement of inpaintToCanvas raises, the handler reports the
\* processing failure and leaves the image canvas as it was.
C7_FailureLeavesImage ==
    [][/\ RemoveClick => imgCanvas' = imgCanvas
       /\ (ResumeStep /\ cvLog'.thrown # "none") =>
              (status' = "failed" /\ imgCanvas' = imgCanvas)]_vars

C7_Witness ==
    /\ cvLog.thrown = "imshow"
    /\ status = "failed"
    /\ stateImg # "null"
    /\ imgCanvas.px # Blank(imgCanvas.w, imgCanvas.h).px

\* C8: a click on the trigger while window.cv is absent or has no Mat sets
\* the not-ready status and does nothing else: no run of the primitive is
\* started, the canvases, the trigger and the Mats stay as they are.
C8_NotReadyRefused ==
    [][(RemoveClick /\ cv # "ready") =>
          /\ status' = "notReady"
          /\ UNCHANGED <<imgCanvas, maskCanvas, outCanvas, btnRemoveDisabled,
                         inflight, liveMats, cvLog>>
          /\ ~btnRemoveDisabled']_vars

C8_Witness ==
    /\ status = "notReady"
    /\ cv = "noMat"
    /\ stateImg # "null"
    /\ ~btnRemoveDisabled
    /\ inflight = 0

\* C9: the radius handed to cv.inpaint is 1 for a caller radius <= 0, 30 for
\* a caller radius >= 31, and the caller radius itself in between.
C9_RadiusClamped ==
    [][(ResumeStep /\ cvLog'.inpaintCalled) =>
          /\ cvLog'.radius \in 1..30
          /\ stateRadius <= 0 => cvLog'.radius = 1
          /\ stateRadius >= 31 => cvLog'.radius = 30
          /\ stateRadius \in 1..30 => cvLog'.radius = stateRadius]_vars

C9_Witness ==
    /\ cvLog.inpaintCalled
    /\ cvLog.radius = 1
    /\ stateRadius < 0

\* C10: with a mask whose pixels are all zero, a successful inpaint leaves
\* the red, green and blue of every pixel of the image canvas as they were
\* and makes every pixel opaque.
C10_ZeroMaskNoOp ==
    [][(ResumeStep /\ cvLog'.thrown = "none" /\ DOMAIN maskCanvas.px = {}) =>
          /\ imgCanvas'.w = imgCanvas.w /\ imgCanvas'.h = imgCanvas.h
          /\ \A i \in 0..(imgCanvas.w * imgCanvas.h - 1) :
                /\ \A k \in 1..3 : PixelAt(imgCanvas', i)[k] = PixelAt(imgCanvas, i)[k]
                /\ PixelAt(imgCanvas', i)[4] = 255]_vars

C10_Witness ==
    /\ status = "done"
    /\ cvLog.thrown = "none"
    /\ strokes = 0
    /\ DOMAIN maskCanvas.px = {}
    /\ \E i \in DOMAIN imgCanvas.px : imgCanvas.px[i][1] # imgCanvas.px[i][3]

(***************************************************************************)
(* Claims about drawLine and the pointer handlers.                         *)
(***************************************************************************)
\* the end points of the call lie exactly brush * 3 pixels apart
ApartBrushTimes3 ==
    LET dx == lineIn.b[1] - lineIn.a[1]
        dy == lineIn.b[2] - lineIn.a[2]
    IN  dx * dx + dy * dy = 36 * lineIn.brush * lineIn.brush

\* the call drew exactly one stamp, at a
OneStampAtStart ==
    /\ Len(lineOut[1]) = 1
    /\ lineOut[1][1][3] # 0
    /\ lineOut[1][1][1] = lineIn.a[1] * lineOut[1][1][3]
    /\ lineOut[1][1][2] = lineIn.a[2] * lineOut[1][1][3]

\* C11 as stated: for every brush size >= 0, drawLine between points exactly
\* brush * 3 apart draws at least 2 stamps, and between coincident points
\* exactly 1 stamp, at that point.
C11_StampsAsStated ==
    lineOut # <<>> =>
        /\ ApartBrushTimes3 => Len(lineOut[1]) >= 2
        /\ lineIn.a = lineIn.b => OneStampAtStart

\* C11 amended: for every brush size > 0, drawLine between points exactly
\* brush * 3 apart draws at least 2 stamps; for every brush size >= 0,
\* drawLine between coincident points draws exactly 1 stamp, at that point,
\* its centre a proper fraction (no division by zero).
C11_Stamps ==
    lineOut # <<>> =>
        /\ (lineIn.brush > 0 /\ ApartBrushTimes3) => Len(lineOut[1]) >= 2
        /\ lineIn.a = lineIn.b => OneStampAtStart

C11_Witness ==
    /\ lineOut # <<>>
    /\ lineIn.brush \in 1..2
    /\ ApartBrushTimes3
    /\ Len(lineOut[1]) >= 2

\* canvas c after the stamps k..Len(centres) of centres are drawn in order
RECURSIVE StampAll(_, _, _, _)
StampAll(c, centres, brush, k) ==
    IF k > Len(centres) THEN c
    ELSE StampAll(drawBrush(c, maskFillStyle, centres[k][1], centres[k][2], centres[k][3], brush),
                  centres, brush, k + 1)

\* C12: during a drag, a pointer move without shift paints one stamp at the
\* new point and changes no pixel that stamp does not cover; a pointer move
\* with shift paints every stamp of the stroke from the last point to the
\* new point; in both cases the new point becomes the last point.
C12_MovePaints ==
    [][\A p \in PaintPoints :
          /\ (drawing /\ stateImg # "null" /\ pointerMove(p, FALSE)) =>
                /\ maskCanvas' = StampAll(maskCanvas, <<<<p[1], p[2], 1>>>>, stateBrush, 1)
                /\ \A i \in 0..(maskCanvas.w * maskCanvas.h - 1) :
                      Coverage(maskCanvas.w, i, p[1], p[2], 1, stateBrush) = 0 =>
                          PixelAt(maskCanvas', i) = PixelAt(maskCanvas, i)
                /\ lastPoint' = p
          /\ (drawing /\ stateImg # "null" /\ lastPoint # "null" /\ pointerMove(p, TRUE)) =>
                /\ maskCanvas' = StampAll(maskCanvas, lineCentres(lastPoint, p, stateBrush),
                                          stateBrush, 1)
                /\ lastPoint' = p]_vars

\* a drag from pixel 0 to pixel 2 of the one-row image that left pixel 1 alone
C12_Witness ==
    /\ drawing
    /\ stateImg = "a"
    /\ strokes = 2
    /\ lastPoint = <<5, 1>>
    /\ PixelAt(maskCanvas, 0)[4] > 0
    /\ PixelAt(maskCanvas, 1) = Transparent
    /\ PixelAt(maskCanvas, 2)[4] > 0

(***************************************************************************)
(* Claims about the region of removeWatermark.                             *)
(***************************************************************************)
\* C13: the rectangle's height is min(100, 0.15 * H) and its width is
\* min(150, 0.25 * W); neither exceeds either bound.
C13_RegionDimensions ==
    region # <<>> =>
        /\ region[1].height20 = (IF 3 * rgImg.height <= 2000 THEN 3 * rgImg.height ELSE 2000)
        /\ region[1].width4 = (IF rgImg.width <= 600 THEN rgImg.width ELSE 600)
        /\ region[1].height20 <= 2000 /\ region[1].height20 <= 3 * rgImg.height
        /\ region[1].width4 <= 600 /\ region[1].width4 <= rgImg.width

\* an image tall and wide enough for both caps
C13_Witness ==
    /\ region # <<>>
    /\ rgImg.height > 667 /\ rgImg.width > 600
    /\ region[1].height20 = 2000 /\ region[1].width4 = 600

\* the fill loop is at an iteration: (x4 / 4, y20 / 20) is the (x, y) it visits
Visiting == wmPc = "loop" /\ y20 < 20 * wmImg.height /\ x4 < 4 * wmImg.width

\* the iteration writes: line 237 and line 255 let it
Writes ==
    /\ sampleY20(wmImg.height, y20) >= 0
    /\ count(wmImg.width, wmImg.height, sampleY20(wmImg.height, y20), x4) > 0

\* C14: the start coordinates are (W - width, H - height) and not negative,
\* every (x, y) the fill loop visits has startX <= x < W and startY <= y < H,
\* and every index idx .. idx + 3 it writes at lies inside the buffer.
C14_WritesInsideBuffer ==
    Visiting =>
        /\ startX4(wmImg.width) = 4 * wmImg.width - watermarkWidth4(wmImg.width)
        /\ startY20(wmImg.height) = 20 * wmImg.height - watermarkHeight20(wmImg.height)
        /\ startX4(wmImg.width) >= 0 /\ startY20(wmImg.height) >= 0
        /\ startX4(wmImg.width) <= x4 /\ x4 < 4 * wmImg.width
        /\ startY20(wmImg.height) <= y20 /\ y20 < 20 * wmImg.height
        /\ Writes =>
              /\ idx5(wmImg.width, y20, x4) >= 0
              /\ idx5(wmImg.width, y20, x4) + 15 < 5 * Len(data)

\* the image is fully opaque and every pixel has the same colour
Uniform(im) == im.seed \in {-1, 0}

\* C15: on a fully opaque image whose pixels all have the colour c, every
\* pixel of the rectangle is (c, 255) after removeWatermark.
C15_UniformStaysUniform ==
    (wmPc = "done" /\ Uniform(wmImg)) =>
        \A p \in Pixels(wmImg) : InRect(wmImg, p) =>
            \A c \in 0..3 : ByteAt(data, wmImg, p, c) = ByteAt(InputData(wmImg), wmImg, p, c)

(***************************************************************************)
(* lnwremove: the WatermarkRemover page (script.js 6-12, 74-133, 293-321). *)
(* A file is "ok" (an image that loads and is processed), "badload" (an    *)
(* image whose load is rejected), "badproc" (an image on which             *)
(* removeWatermark throws) or "text" (its type is not image/...).          *)
(***************************************************************************)
MaxItems == 4        \* image items made before no further batch is taken
MaxRunning == 2      \* calls of handleFiles awaiting a load at once

FileLists ==
    {<<>>, <<"text">>, <<"ok">>, <<"badload", "ok">>, <<"ok", "badproc", "text", "ok">>,
     <<"text", "badproc">>}

\* line 83: file.type.startsWith('image/')
IsImage(kind) == kind # "text"

\* lines 82-86: the index of the first image file after position pos, or
\* Len(files) + 1 when the loop runs out
nextImage(files, pos) ==
    IF \E j \in (pos + 1)..Len(files) : IsImage(files[j])
    THEN CHOOSE j \in (pos + 1)..Len(files) :
            IsImage(files[j]) /\ \A k \in (pos + 1)..(j - 1) : ~IsImage(files[k])
    ELSE Len(files) + 1

\* lines 82-86 and 127-130: where the loop of handleFiles is after the image
\* file at pos has settled as kind says: processImage catches every failure,
\* so the loop goes on to the next image file
loopAfterEscaping(files, pos, kind) ==
    IF kind = "ok" THEN nextImage(files, pos) ELSE Len(files) + 1
loopAfter(files, pos, kind) == nextImage(files, pos)

\* lines 311-321
clearAll ==
    /\ images' = <<>>
    /\ processedCount' = 0
    /\ successCount' = 0
    /\ grid' = {}
    /\ uploadHidden' = FALSE

\* the clear button
ClearAllClick ==
    /\ clearAll
    /\ UNCHANGED <<items, running>>
    /\ UNCHANGED <<wmVars, aiVars, strokes, thVars, szVars, slVars, lnVars, rgVars>>

\* lines 74-81 and 82-96: handleFiles up to its first await: the area is
\* switched, the loop reaches the first image file, processImage makes its
\* item and awaits loadImage
handleFiles(files) ==
    /\ Len(running) < MaxRunning
    /\ Len(items) + Cardinality({j \in 1..Len(files) : IsImage(files[j])}) <= MaxItems
    /\ IF Len(files) = 0
       THEN UNCHANGED <<uploadHidden, items, grid, running>>
       ELSE /\ uploadHidden' = TRUE
            /\ IF nextImage(files, 0) > Len(files)
               THEN UNCHANGED <<items, grid, running>>
               ELSE /\ items' = Append(items, "processing")
                    /\ grid' = grid \cup {Len(items) + 1}
                    /\ running' = Append(running,
                          [files |-> files, pos |-> nextImage(files, 0), item |-> Len(items) + 1])
    /\ UNCHANGED <<images, processedCount, successCount>>
    /\ UNCHANGED <<wmVars, aiVars, strokes, thVars, szVars, slVars, lnVars, rgVars>>

\* lines 96-132 and 82-86: the load awaited by call b of handleFiles settles;
\* processImage runs to its end and the loop goes on to the next image file
\* (the awaits between are of promises already settled: no event comes between)
FileSettles(b) ==
    /\ b \in 1..Len(running)
    /\ LET r    == running[b]
           kind == r.files[r.pos]
           next == loopAfter(r.files, r.pos, kind)
           made == [items EXCEPT ![r.item] = IF kind = "ok" THEN "success" ELSE "error"]
       IN  /\ images' = IF kind = "ok" THEN Append(images, r.item) ELSE images
           /\ successCount' = IF kind = "ok" THEN successCount + 1 ELSE successCount
           /\ processedCount' = processedCount + 1
           /\ IF next > Len(r.files)
              THEN /\ items' = made
                   /\ running' = [k \in 1..(Len(running) - 1) |->
                                     IF k < b THEN running[k] ELSE running[k + 1]]
                   /\ UNCHANGED grid
              ELSE /\ items' = Append(made, "processing")
                   /\ grid' = grid \cup {Len(items) + 1}
                   /\ running' = [running EXCEPT ![b] =
                                     [files |-> r.files, pos |-> next, item |-> Len(items) + 1]]
    /\ UNCHANGED uploadHidden
    /\ UNCHANGED <<wmVars, aiVars, strokes, thVars, szVars, slVars, lnVars, rgVars>>

\* lines 293-309 without the test of line 295
removeImageUnchecked(id) ==
    /\ id \in grid
    /\ IF Len(SelectSeq(images, LAMBDA i : i # id)) = 0
       THEN clearAll
       ELSE /\ images' = SelectSeq(images, LAMBDA i : i # id)
            /\ grid' = grid \ {id}
            /\ processedCount' = processedCount - 1
            /\ successCount' = successCount - 1
            /\ UNCHANGED uploadHidden
    /\ UNCHANGED <<items, running>>
    /\ UNCHANGED <<wmVars, aiVars, strokes, thVars, szVars, slVars, lnVars, rgVars>>

\* lines 293-309: the remove button of item id
removeImage(id) ==
    /\ id \in grid
    /\ IF \E k \in 1..Len(images) : images[k] = id
       THEN IF Len(images) = 1
            THEN clearAll
            ELSE /\ images' = SelectSeq(images, LAMBDA i : i # id)
                 /\ grid' = grid \ {id}
                 /\ processedCount' = processedCount - 1
                 /\ successCount' = successCount - 1
                 /\ UNCHANGED uploadHidden
       ELSE UNCHANGED <<images, grid, processedCount, successCount, uploadHidden>>
    /\ UNCHANGED <<items, running>>
    /\ UNCHANGED <<wmVars, aiVars, strokes, thVars, szVars, slVars, lnVars, rgVars>>

BInit ==
    /\ BParked
    /\ AiParked
    /\ WmParked
    /\ ThParked
    /\ SzParked
    /\ SlParked
    /\ LnParked
    /\ RgParked
    /\ strokes = 0

BatchNext ==
    \/ \E files \in FileLists : handleFiles(files)
    \/ \E b \in 1..MaxRunning : FileSettles(b)
    \/ \E id \in 1..MaxItems : removeImage(id)
    \/ ClearAllClick

SpecBatch == BInit /\ [][BatchNext]_vars

(***************************************************************************)
(* Claims about the WatermarkRemover page.                                 *)
(***************************************************************************)
\* the image files of call r of handleFiles that come after its current one
LaterImages(r) == {j \in (r.pos + 1)..Len(r.files) : IsImage(r.files[j])}

\* C16: when the image a batch waits for settles, processedCount grows by
\* one whatever the outcome and successCount by one on success only; a
\* failure gives that item, and no other, the error status; and the batch
\* goes on: it is then at its next image file, whose item is made, or over
\* if no image file is left.
C16_FailureDoesNotStopBatch ==
    [][\A b \in 1..MaxRunning :
          FileSettles(b) =>
              LET r  == running[b]
                  ok == r.files[r.pos] = "ok"
              IN  /\ processedCount' = processedCount + 1
                  /\ successCount' = successCount + (IF ok THEN 1 ELSE 0)
                  /\ items'[r.item] = (IF ok THEN "success" ELSE "error")
                  /\ \A i \in DOMAIN items : i # r.item => items'[i] = items[i]
                  /\ IF LaterImages(r) = {}
                     THEN Len(running') = Len(running) - 1
                     ELSE /\ Len(running') = Len(running)
                          /\ running'[b].files = r.files
                          /\ running'[b].pos \in LaterImages(r)
                          /\ \A j \in LaterImages(r) : running'[b].pos <= j
                          /\ items'[running'[b].item] = "processing"]_vars

\* the batch ok, badproc, text, ok is over: its second item failed, its
\* third was processed after that
C16_Witness ==
    /\ running = <<>>
    /\ Len(items) = 3
    /\ items = <<"success", "error", "success">>
    /\ processedCount = 3
    /\ successCount = 2

(***************************************************************************)
(* Claims about waitForCvReady and the canvases of the interactive tool.   *)
(***************************************************************************)
\* C17: waitForCvReady resolves at once when the primitive is ready at the
\* call; each later check resolves when it finds the primitive ready, else
\* rejects when more than timeoutMs have passed since the call, else leaves
\* the promise pending and schedules the next check 50 ms later; a settled
\* promise stays as it is with no check pending; and the promise is
\* eventually settled.
C17_WaitSettlesOnce ==
    /\ (cv = "ready" => waiter = "resolved")
    /\ [](waiter = "polling" <=> timer # -1)
    /\ [][/\ waiter # "polling" => (waiter' = waiter /\ timer' = -1)
          /\ WaitTick =>
                IF cv = "ready" THEN waiter' = "resolved"
                ELSE IF now > timeoutMs THEN waiter' = "rejected"
                ELSE waiter' = "polling" /\ timer' = now + 50]_vars
    /\ <>(waiter # "polling")

\* the default timeout ran out with the primitive still missing
C17_Witness ==
    /\ waiter = "rejected"
    /\ timer = -1
    /\ cv # "ready"
    /\ timeoutMs = 20000
    /\ now > 20000

\* C18: whenever an image is loaded, and so whenever a click handler is about
\* to call inpaintToCanvas, the image canvas and the mask canvas have the same
\* width and the same height.
C18_CanvasesSameSize ==
    (stateImg # "null" \/ inflight > 0) =>
        /\ imgCanvas.w = maskCanvas.w
        /\ imgCanvas.h = maskCanvas.h

\* the 3 x 1 image is shown while two further loads, one of them failing,
\* are awaited at once and a click handler is in its yield
C18_Witness ==
    /\ stateImg = "a"
    /\ imgCanvas.w = 3
    /\ imgCanvas.h = 1
    /\ loading = {"b", "bad"}
    /\ inflight > 0

\* C19: the click handler of the remove button, from the click to the end of
\* its try block, whether inpaintToCanvas returns or raises, leaves the mask
\* canvas exactly as it was.
C19_MaskKept ==
    [][inflight' # inflight => maskCanvas' = maskCanvas]_vars

\* a handler has finished with success on a painted mask, and the mask
\* canvas still holds the paint
C19_Witness ==
    /\ status = "done"
    /\ inflight = 0
    /\ cvLog.thrown = "none"
    /\ cvLog.inpaintCalled
    /\ \E i \in DOMAIN maskCanvas.px : maskCanvas.px[i][4] = 255

(***************************************************************************)
(* Claims about the samples of removeWatermark.                            *)
(***************************************************************************)
\* C20: at every (x, y) the fill loop writes, each sample it adds to the sum
\* of channel c is byte c of a pixel (col, row) of the image, where row is
\* sourceRow - 1, sourceRow or sourceRow + 1 with 0 <= row < rectTop, col is
\* x - 1, x or x + 1 with 0 <= col < W, and
\* sourceRow = max(0, rectTop - (y - rectTop) - 1).
C20_SamplesAreNeighbourhood ==
    (Visiting /\ Writes) =>
        LET W  == wmImg.width
            H  == wmImg.height
            sy == sampleY20(H, y20)
        IN  /\ sy = Max(0, 2 * startY20(H) - y20 - 20)
            /\ \A k \in 1..9 : Qualifies(W, H, sy, x4, Offsets[k]) =>
                  LET ny == sy + 20 * Offsets[k][1]
                      nx == x4 + 4 * Offsets[k][2]
                  IN  /\ ny % 20 = 0 /\ nx % 4 = 0
                      /\ (ny \div 20) \in 0..(H - 1) /\ ny < startY20(H)
                      /\ (nx \div 4) \in 0..(W - 1)
                      /\ \A c \in 0..2 :
                            /\ IsIndex(nIdx5(W, sy, x4, Offsets[k]) + 5 * c, Len(data))
                            /\ nIdx5(W, sy, x4, Offsets[k]) + 5 * c
                                 = 5 * (((ny \div 20) * W + (nx \div 4)) * 4 + c)

\* C21: an iteration of the fill loop at which at least one neighbour
\* qualifies stores, in each of the red, green and blue bytes of the
\* destination pixel, the mean of that channel over the samples rounded
\* down, and stores 255 in its alpha byte.
C21_TruncatedMean ==
    [][(Visiting /\ Writes) =>
          LET W  == wmImg.width
              H  == wmImg.height
              sy == sampleY20(H, y20)
              k  == idx5(W, y20, x4)
          IN  /\ \A c \in 0..2 :
                    /\ IsIndex(k + 5 * c, Len(data))
                    /\ data'[(k \div 5) + c + 1]
                         = ChannelSum(data, W, H, sy, x4, c, 9) \div count(W, H, sy, x4)
                    /\ data'[(k \div 5) + c + 1] \in 0..255
              /\ IsIndex(k + 15, Len(data))
              /\ data'[(k \div 5) + 4] = 255]_vars

\* C22: an iteration at which no neighbour qualifies changes no byte; no
\* neighbour qualifies only when the region above the rectangle has no
\* height; and on an image with H >= 2 at least one neighbour qualifies at
\* every (x, y) the loop visits.
C22_SomeNeighbourQualifies ==
    /\ [](Visiting =>
            LET n == count(wmImg.width, wmImg.height, sampleY20(wmImg.height, y20), x4)
            IN  /\ n = 0 => startY20(wmImg.height) = 0
                /\ wmImg.height >= 2 => n > 0)
    /\ [][(Visiting /\ ~Writes) => data' = data]_vars

\* the loop is at the only rectangle position of the 1 x 2 image, where
\* exactly one neighbour qualifies
C22_Witness ==
    /\ Visiting
    /\ wmImg.width = 1
    /\ wmImg.height = 2
    /\ count(1, 2, sampleY20(2, y20), x4) = 1

(***************************************************************************)
(* Claims about the stamps of a stroke.                                    *)
(***************************************************************************)
\* n is ceil(distance(a, b) / max(1, brush / 3)) for the call of drawLine:
\* the least n with n * max(3, brush) / 3 >= distance, the distance being
\* half the length of b - a in half pixels
IsCeilOfDistance(n) ==
    LET dx == lineIn.b[1] - lineIn.a[1]
        dy == lineIn.b[2] - lineIn.a[2]
        m  == IF lineIn.brush > 3 THEN lineIn.brush ELSE 3
    IN  /\ 4 * m * m * n * n >= 9 * (dx * dx + dy * dy)
        /\ n > 0 => 4 * m * m * (n - 1) * (n - 1) < 9 * (dx * dx + dy * dy)

\* stamp k of the call (k = 1 is the first) lies at a + (b - a) * (k - 1) / n
StampAtFraction(k, n) ==
    LET centre == lineOut[1][k]
    IN  /\ centre[3] > 0
        /\ centre[1] * n = centre[3] * (lineIn.a[1] * n + (lineIn.b[1] - lineIn.a[1]) * (k - 1))
        /\ centre[2] * n = centre[3] * (lineIn.a[2] * n + (lineIn.b[2] - lineIn.a[2]) * (k - 1))

\* C23 as stated: drawLine from a to b with brush size s draws
\* ceil(distance(a, b) / max(1, s / 3)) stamps.
C23_StampCountAsStated ==
    lineOut # <<>> => IsCeilOfDistance(Len(lineOut[1]))

\* C23 amended: with n = ceil(distance(a, b) / max(1, s / 3)), drawLine draws
\* n + 1 stamps; when n > 0 they lie at a + (b - a) * i / n for i = 0..n, the
\* first at a and the last at b; when n = 0 the one stamp lies at a.
C23_StampCount ==
    lineOut # <<>> =>
        LET n == Len(lineOut[1]) - 1
        IN  /\ n >= 0
            /\ IsCeilOfDistance(n)
            /\ n > 0 => \A k \in 1..(n + 1) : StampAtFraction(k, n)
            /\ n = 0 => StampAtFraction(1, 1)

\* brush 6 over 18 pixels: nine steps of 2 pixels, ten stamps
C23_Witness ==
    /\ lineOut # <<>>
    /\ lineIn.brush = 6
    /\ lineIn.b = <<lineIn.a[1] + 36, lineIn.a[2]>>
    /\ Len(lineOut[1]) = 10

(***************************************************************************)
(* Claims about the attempts of the remove button.                         *)
(***************************************************************************)
\* C24: an attempt that has started (the status says working) leads to a
\* state in which the status says done or failed and the trigger is enabled;
\* the step in which a handler finishes, whether inpaintToCanvas returned or
\* raised, ends one attempt and leaves the trigger enabled and an image
\* loaded; and the primitive is invoked only in such a step, once, so never
\* more often than the trigger was clicked with effect.
C24_AttemptEnds ==
    /\ [](inflight >= 0)
    /\ [][/\ ResumeStep =>
                /\ inflight' = inflight - 1
                /\ ~btnRemoveDisabled'
                /\ stateImg' # "null"
                /\ status' \in {"done", "failed"}
          /\ cvLog' # cvLog => ResumeStep
          /\ inflight' > inflight =>
                (inflight' = inflight + 1 /\ status' = "working" /\ cvLog' = cvLog)]_vars
    /\ (status = "working" ~> (status \in {"done", "failed"} /\ ~btnRemoveDisabled))

\* an attempt has failed in cv.inpaint and the trigger is enabled again
C24_Witness ==
    /\ status = "failed"
    /\ cvLog.thrown = "inpaint"
    /\ inflight = 0
    /\ ~btnRemoveDisabled
    /\ stateImg # "null"

(***************************************************************************)
(* Claims about the counters of the WatermarkRemover page.                 *)
(***************************************************************************)
\* C25: whatever the order of settled loads, removals and clears,
\* 0 <= successCount <= processedCount, and successCount is the number of
\* entries of the images list.
C25_CountersConsistent ==
    /\ 0 <= successCount
    /\ successCount <= processedCount
    /\ successCount = Len(images)

\* the grid was cleared while an image was being loaded, the image was then
\* processed with success, and a later image failed
C25_Witness ==
    /\ \E k \in 1..Len(images) : images[k] \notin grid
    /\ successCount = 1
    /\ processedCount = 2

(***************************************************************************)
(* Claims about the reads and writes of removeWatermark.                   *)
(***************************************************************************)
\* C26: every element of the buffer an iteration of the fill loop reads for
\* its sums lies below the first element any iteration writes, and still
\* holds the value it had in the input.
C26_ReadsOnlyInput ==
    (Visiting /\ Writes) =>
        LET W  == wmImg.width
            H  == wmImg.height
            sy == sampleY20(H, y20)
        IN  \A k \in 1..9 : Qualifies(W, H, sy, x4, Offsets[k]) =>
                \A c \in 0..2 :
                    LET key == nIdx5(W, sy, x4, Offsets[k]) + 5 * c
                    IN  /\ key < idx5(W, startY20(H), startX4(W))
                        /\ IsIndex(key, Len(data)) =>
                              data[(key \div 5) + 1] = InputData(wmImg)[(key \div 5) + 1]

\* the loop is in a later row of the rectangle of a varied image, earlier
\* iterations have changed the buffer, and this one reads and writes
C26_Witness ==
    /\ Visiting
    /\ Writes
    /\ wmImg.seed = 1
    /\ y20 > startY20(wmImg.height)
    /\ data # InputData(wmImg)

(***************************************************************************)
(* Claims about the pointer state of the interactive tool.                 *)
(***************************************************************************)
\* state.lastPoint as a sequence: empty for null
PointOf(v) == IF v # "null" THEN v ELSE <<>>

\* C27: state.drawing is true exactly when state.lastPoint is not null;
\* while no image is loaded no event changes the drawing flag or lastPoint,
\* or the mask unless it loads an image; and a step that starts from not
\* drawing and is no pointerdown (drawing stays off), a pointermove among
\* them, leaves lastPoint null and paints nothing: the mask stays as it was
\* or is cleared by a load or the clear button.
C27_DrawingIffLastPoint ==
    /\ [](drawing <=> lastPoint # "null")
    /\ [][/\ stateImg = "null" =>
                /\ drawing' = drawing
                /\ PointOf(lastPoint') = PointOf(lastPoint)
                /\ stateImg' = "null" => maskCanvas' = maskCanvas
          /\ (~drawing /\ ~drawing') =>
                /\ PointOf(lastPoint') = <<>>
                /\ maskCanvas' = maskCanvas \/ maskCanvas' = clearRect(maskCanvas')
         ]_<<drawing, maskCanvas, PointOf(lastPoint), stateImg>>

\* a stroke is over: the mask holds its paint, drawing is off, lastPoint null
C27_Witness ==
    /\ stateImg # "null"
    /\ ~drawing
    /\ PointOf(lastPoint) = <<>>
    /\ \E i \in DOMAIN maskCanvas.px : maskCanvas.px[i][4] = 255

(***************************************************************************)
(* The carousel (part_000 11-16, 73-150).  Interval timers are known by    *)
(* the ids setInterval returns: 1, 2, ... in the order of the calls.       *)
(***************************************************************************)
MaxSlides == 3       \* slides of the carousel
MaxTimerIds == 5     \* calls of setInterval before no further one is explored

\* e.clientX of the pointer events
ClientXs == {0, 60, 120}

\* a % n of JavaScript, n > 0: the remainder has the sign of a
JsRem(a, n) == IF a >= 0 THEN a % n ELSE 0 - ((0 - a) % n)

\* lines 11-16
clampIndexNoWrap(i, slideCount) ==
    IF slideCount <= 0 THEN 0 ELSE JsRem(i, slideCount)
clampIndex(i, slideCount) ==
    IF slideCount <= 0 THEN 0
    ELSE IF JsRem(i, slideCount) < 0 THEN JsRem(i, slideCount) + slideCount ELSE JsRem(i, slideCount)

\* the timers as the functions below take and give them:
\* [auto: state.autoTimer, live: the timers set and not cleared, ids]
TimersNow == [auto |-> autoTimer, live |-> liveTimers, ids |-> timerIds]

\* lines 73-78
stopAuto(t) ==
    IF t.auto # 0 THEN [t EXCEPT !.auto = 0, !.live = t.live \ {t.auto}] ELSE t

\* lines 79-84
startAutoNoStop(t) ==
    [auto |-> t.ids + 1, live |-> t.live \cup {t.ids + 1}, ids |-> t.ids + 1]
startAuto(t) ==
    [auto |-> stopAuto(t).ids + 1,
     live |-> stopAuto(t).live \cup {stopAuto(t).ids + 1},
     ids  |-> stopAuto(t).ids + 1]

\* the timers become t
SetTimers(t) ==
    /\ autoTimer' = t.auto
    /\ liveTimers' = t.live
    /\ timerIds' = t.ids

\* lines 85-91
goTo(i, userInitiated) ==
    /\ index' = clampIndex(i, slides)
    /\ IF userInitiated
       THEN timerIds < MaxTimerIds /\ SetTimers(startAuto(TimersNow))
       ELSE UNCHANGED <<autoTimer, liveTimers, timerIds>>

\* line 103
prevBtnClick ==
    /\ goTo(index - 1, TRUE)
    /\ UNCHANGED <<slides, isDragging, startX, deltaX>>
    /\ UNCHANGED <<wmVars, aiVars, strokes, thVars, szVars, lnVars, rgVars, bVars>>

\* line 104
nextBtnClick ==
    /\ goTo(index + 1, TRUE)
    /\ UNCHANGED <<slides, isDragging, startX, deltaX>>
    /\ UNCHANGED <<wmVars, aiVars, strokes, thVars, szVars, lnVars, rgVars, bVars>>

\* lines 61-63: the click listener of dot i
dotClick(i) ==
    /\ i < slides
    /\ goTo(i, TRUE)
    /\ UNCHANGED <<slides, isDragging, startX, deltaX>>
    /\ UNCHANGED <<wmVars, aiVars, strokes, thVars, szVars, lnVars, rgVars, bVars>>

\* lines 105-110
onKeyDown(key) ==
    /\ IF key = "ArrowLeft" THEN goTo(index - 1, TRUE)
       ELSE IF key = "ArrowRight" THEN goTo(index + 1, TRUE)
       ELSE UNCHANGED <<index, autoTimer, liveTimers, timerIds>>
    /\ UNCHANGED <<slides, isDragging, startX, deltaX>>
    /\ UNCHANGED <<wmVars, aiVars, strokes, thVars, szVars, lnVars, rgVars, bVars>>

\* line 111
mouseenter ==
    /\ SetTimers(stopAuto(TimersNow))
    /\ UNCHANGED <<slides, index, isDragging, startX, deltaX>>
    /\ UNCHANGED <<wmVars, aiVars, strokes, thVars, szVars, lnVars, rgVars, bVars>>

\* line 112
mouseleave ==
    /\ timerIds < MaxTimerIds
    /\ SetTimers(startAuto(TimersNow))
    /\ UNCHANGED <<slides, index, isDragging, startX, deltaX>>
    /\ UNCHANGED <<wmVars, aiVars, strokes, thVars, szVars, lnVars, rgVars, bVars>>

\* line 113
focusin ==
    /\ SetTimers(stopAuto(TimersNow))
    /\ UNCHANGED <<slides, index, isDragging, startX, deltaX>>
    /\ UNCHANGED <<wmVars, aiVars, strokes, thVars, szVars, lnVars, rgVars, bVars>>

\* line 114
focusout ==
    /\ timerIds < MaxTimerIds
    /\ SetTimers(startAuto(TimersNow))
    /\ UNCHANGED <<slides, index, isDragging, startX, deltaX>>
    /\ UNCHANGED <<wmVars, aiVars, strokes, thVars, szVars, lnVars, rgVars, bVars>>

\* lines 117-123
sliderPointerDown(x) ==
    /\ isDragging' = TRUE
    /\ startX' = x
    /\ deltaX' = 0
    /\ SetTimers(stopAuto(TimersNow))
    /\ UNCHANGED <<slides, index>>
    /\ UNCHANGED <<wmVars, aiVars, strokes, thVars, szVars, lnVars, rgVars, bVars>>

\* lines 124-128
sliderPointerMove(x) ==
    /\ IF ~isDragging THEN UNCHANGED deltaX ELSE deltaX' = x - startX
    /\ UNCHANGED <<slides, index, isDragging, startX, autoTimer, liveTimers, timerIds>>
    /\ UNCHANGED <<wmVars, aiVars, strokes, thVars, szVars, lnVars, rgVars, bVars>>

\* lines 129-144, for pointerup and pointercancel
sliderPointerUp ==
    /\ IF ~isDragging
       THEN UNCHANGED <<index, isDragging, deltaX, autoTimer, liveTimers, timerIds>>
       ELSE /\ isDragging' = FALSE
            /\ IF deltaX > 50 THEN goTo(index - 1, TRUE)
               ELSE IF deltaX < 0 - 50 THEN goTo(index + 1, TRUE)
               ELSE /\ timerIds < MaxTimerIds
                    /\ SetTimers(startAuto(TimersNow))
                    /\ UNCHANGED index
            /\ deltaX' = 0
    /\ UNCHANGED <<slides, startX>>
    /\ UNCHANGED <<wmVars, aiVars, strokes, thVars, szVars, lnVars, rgVars, bVars>>

\* lines 81-83: the callback of the live interval timer id runs
AutoTick(id) ==
    /\ id \in liveTimers
    /\ goTo(index + 1, FALSE)
    /\ UNCHANGED <<slides, isDragging, startX, deltaX>>
    /\ UNCHANGED <<wmVars, aiVars, strokes, thVars, szVars, lnVars, rgVars, bVars>>

\* lines 92-102, 149: initSlider on a root with 0..MaxSlides slides
SlInit ==
    /\ slides \in 0..MaxSlides
    /\ index = 0
    /\ isDragging = FALSE
    /\ startX = 0
    /\ deltaX = 0
    /\ autoTimer = startAuto([auto |-> 0, live |-> {}, ids |-> 0]).auto
    /\ liveTimers = startAuto([auto |-> 0, live |-> {}, ids |-> 0]).live
    /\ timerIds = startAuto([auto |-> 0, live |-> {}, ids |-> 0]).ids
    /\ AiParked
    /\ WmParked
    /\ ThParked
    /\ SzParked
    /\ BParked
    /\ RgParked
    /\ LnParked
    /\ strokes = 0

SliderNext ==
    \/ prevBtnClick
    \/ nextBtnClick
    \/ \E i \in 0..(MaxSlides - 1) : dotClick(i)
    \/ \E key \in {"ArrowLeft", "ArrowRight", "Tab"} : onKeyDown(key)
    \/ mouseenter
    \/ mouseleave
    \/ focusin
    \/ focusout
    \/ \E x \in ClientXs : sliderPointerDown(x)
    \/ \E x \in ClientXs : sliderPointerMove(x)
    \/ sliderPointerUp
    \/ \E id \in 1..MaxTimerIds : AutoTick(id)

SpecSlider == SlInit /\ [][SliderNext]_vars

\* C28: after any sequence of prev, next, dot clicks, arrow keys, swipes and
\* auto-advance ticks, state.index is an integer with 0 <= index < number of
\* slides, and 0 when there are no slides; next from the last slide goes to
\* slide 0 and prev from slide 0 goes to the last slide.
C28_IndexInRange ==
    /\ [](index \in Int /\ IF slides = 0 THEN index = 0 ELSE index \in 0..(slides - 1))
    /\ [][/\ (nextBtnClick /\ slides > 0 /\ index = slides - 1) => index' = 0
          /\ (prevBtnClick /\ slides > 0 /\ index = 0) => index' = slides - 1]_vars

\* the last of several slides is shown after the user has navigated
C28_Witness == slides >= 2 /\ index = slides - 1 /\ timerIds > 1

\* C29: after any sequence of startAuto, stopAuto, user navigation, hover,
\* focus and drag events at most one auto-advance interval timer is live, one
\* is live exactly when state.autoTimer is non-null (and it is that one), and
\* a step that starts an interval leaves no earlier interval live.
C29_OneLiveTimer ==
    /\ [](/\ Cardinality(liveTimers) <= 1
          /\ liveTimers # {} <=> autoTimer # 0
          /\ liveTimers \subseteq {autoTimer})
    /\ [][\A id \in liveTimers' \ liveTimers : liveTimers' = {id}]_slVars

\* the interval has been restarted twice while one was live, and one is live
C29_Witness == timerIds >= 3 /\ liveTimers = {timerIds} /\ autoTimer = timerIds

(***************************************************************************)
(* renderImage (airemove 58-72) on natural sizes up to far beyond the      *)
(* 960 x 640 box: only the sizes of the canvases are kept.                 *)
(***************************************************************************)
MaxNear == 2         \* natural sizes this far around the limits and their doubles

Around(c) == {c + d : d \in (0 - MaxNear)..MaxNear}

\* naturalWidth and naturalHeight of the images rendered
NaturalWidths == (1..(MaxNear + 1)) \cup Around(960) \cup Around(1920) \cup {1152, 100000}
NaturalHeights == (1..(MaxNear + 1)) \cup Around(640) \cup Around(1280) \cup {768, 100000}

\* lines 58-67: renderImage on an image of natural size nw x nh
renderSizes(nw, nh) ==
    /\ szNatural' = <<nw, nh>>
    /\ szImgCanvas' \in renderSize(nw, nh)
    /\ szMaskCanvas' = szImgCanvas'
    /\ UNCHANGED <<wmVars, aiVars, strokes, thVars, lnVars, rgVars, bVars, slVars>>

SzInit ==
    /\ SzParked
    /\ AiParked
    /\ WmParked
    /\ ThParked
    /\ SlParked
    /\ BParked
    /\ RgParked
    /\ LnParked
    /\ strokes = 0

SizeNext == \E nw \in NaturalWidths, nh \in NaturalHeights : renderSizes(nw, nh)

SpecSize == SzInit /\ [][SizeNext]_vars

\* C30: for every image with natural width and height >= 1, renderImage
\* sizes the image and the mask canvas to w x h with 1 <= w <= 960 and
\* 1 <= h <= 640, w and h no larger than the natural size, and equal to the
\* natural size when the image fits within 960 x 640.
C30_CanvasWithinBox ==
    szNatural # <<0, 0>> =>
        /\ szMaskCanvas = szImgCanvas
        /\ szImgCanvas[1] \in 1..Min(960, szNatural[1])
        /\ szImgCanvas[2] \in 1..Min(640, szNatural[2])
        /\ (szNatural[1] <= 960 /\ szNatural[2] <= 640) => szImgCanvas = szNatural

\* an image wider and taller than the box was scaled down to its height
C30_Witness ==
    /\ szNatural[1] > 960
    /\ szNatural[2] > 640
    /\ szImgCanvas[2] = 640
    /\ szImgCanvas[1] < 960

=============================================================================
